---------------------------- MODULE Spec2Model ----------------------------
(***************************************************************************)
(* HumanS ESP32 Smart Bridge v5.1 (BLE wearable -> Wi-Fi proxy).           *)
(* State machine of the sketch: the global variables, the BLE callbacks    *)
(* (notification, connect, disconnect, scan result), and loop() cut into   *)
(* the steps between which the BLE task can run.                           *)
(***************************************************************************)
EXTENDS Integers, Sequences, FiniteSets, TLC

(***************************************************************************)
(* Bounds of the model.                                                    *)
(***************************************************************************)
MaxTicks == 2            \* the clock stops after this many ticks
MsPerTick == 8000        \* milliseconds that pass in one tick of the clock
MaxLoops == 2            \* iterations of loop() in one run
MaxAttempts == 2         \* connection attempts in one run
MaxPackets == 2          \* accepted notifications in one run
MaxFineTicks == 8        \* ticks of the fine clock of the timer runs
FineTickMs == 1000       \* milliseconds in one tick of the fine clock
MaxPrefill == 8          \* readings already in the history when a signal run starts
MaxPushes == 4           \* readings recorded in one signal run

(***************************************************************************)
(* Program constants.                                                      *)
(***************************************************************************)
TX_POWER == -95
RSSI_EXCELLENT == -60
RSSI_GOOD == -70
RSSI_ACCEPTABLE == -80
RSSI_WEAK == -88
RSSI_CRITICAL == -94
RSSI_MIN_CONNECT == -92
RSSI_FORCE_DISCONNECT == -96
SCAN_INTERVAL == 3000
RSSI_UPDATE_INTERVAL == 2000
CONNECTION_TIMEOUT == 8000
DATA_TIMEOUT == 15000
POST_INTERVAL == 2000
STATUS_CHECK_INTERVAL == 3000
STATS_INTERVAL == 60000
RSSI_HISTORY_SIZE == 10
HTTP_MAX_RETRIES == 2
QUEUE_LENGTH == 10

NULL == "nullptr"
CLIENT == "BLEClient"
CHAR_NOTIFY == "charUUID_notify"
CHAR_WRITE == "charUUID_write"

(***************************************************************************)
(* C++ arithmetic.                                                         *)
(***************************************************************************)
\* int / int truncates toward zero
CDiv(a, b) == IF a >= 0 THEN a \div b ELSE -((-a) \div b)

\* (unsigned long)(a - b) > t, on 32 bits, for 0 <= a, b, t < 2^30
ElapsedGT(a, b, t) ==
  IF a >= b THEN a - b > t
  ELSE ((b - a) + t) \div 65536 < 65536

\* a < t: the comparison made on the clock instead of the elapsed time
ClockLT(a, b, t) == a < t

\* (unsigned long)(a - b) < t, on 32 bits, for 0 <= a, b, t < 2^30
ElapsedLT(a, b, t) ==
  IF a >= b THEN a - b < t
  ELSE LET s == (b - a) + t
       IN  s \div 65536 > 65536 \/ (s \div 65536 = 65536 /\ s % 65536 > 0)

(***************************************************************************)
(* Signal utilities.                                                       *)
(***************************************************************************)
\* 1000 * 10^(k/20) for k = 0..19
Pow10Frac == <<1000, 1122, 1259, 1413, 1585, 1778, 1995, 2239, 2512, 2818,
               3162, 3548, 3981, 4467, 5012, 5623, 6310, 7079, 7943, 8913>>

RECURSIVE Pow10(_)
Pow10(n) == IF n = 0 THEN 1 ELSE 10 * Pow10(n - 1)

\* calculateDistance with the two bounds of the plausibility test moved by one
calculateDistanceOffByOne(rssi) ==
  IF rssi > 0 \/ rssi <= -120 THEN 99900
  ELSE LET e == TX_POWER - rssi
           q == e \div 20
           m == Pow10Frac[(e % 20) + 1]
           d == IF q >= 0 THEN m * Pow10(q) ELSE m \div Pow10(-q)
       IN  IF d < 100 THEN 100 ELSE IF d > 99900 THEN 99900 ELSE d

\* distance in millimetres: constrain(pow(10, (TX_POWER - rssi) / 20.0), 0.1, 99.9)
calculateDistance(rssi) ==
  IF rssi >= 0 \/ rssi < -120 THEN 99900
  ELSE LET e == TX_POWER - rssi
           q == e \div 20
           m == Pow10Frac[(e % 20) + 1]
           d == IF q >= 0 THEN m * Pow10(q) ELSE m \div Pow10(-q)
       IN  IF d < 100 THEN 100 ELSE IF d > 99900 THEN 99900 ELSE d

\* getSignalQuality with the labels of two buckets exchanged
getSignalQualityMislabelled(rssi) ==
  IF rssi >= RSSI_EXCELLENT THEN "EXCELENTE"
  ELSE IF rssi >= RSSI_GOOD THEN "ACEPTABLE"
  ELSE IF rssi >= RSSI_ACCEPTABLE THEN "BUENA"
  ELSE IF rssi >= RSSI_WEAK THEN "DEBIL"
  ELSE IF rssi >= RSSI_CRITICAL THEN "CRITICA"
  ELSE "PERDIDA"

getSignalQuality(rssi) ==
  IF rssi >= RSSI_EXCELLENT THEN "EXCELENTE"
  ELSE IF rssi >= RSSI_GOOD THEN "BUENA"
  ELSE IF rssi >= RSSI_ACCEPTABLE THEN "ACEPTABLE"
  ELSE IF rssi >= RSSI_WEAK THEN "DEBIL"
  ELSE IF rssi >= RSSI_CRITICAL THEN "CRITICA"
  ELSE "PERDIDA"

RECURSIVE SumFirst(_, _)
SumFirst(h, n) == IF n = 0 THEN 0 ELSE h[n] + SumFirst(h, n - 1)

\* updateRSSIHistory dividing by the capacity instead of the count
updateRSSIHistoryByCapacity(s, rssi) ==
  LET hist == [s.rssiHistory EXCEPT ![s.rssiHistoryIndex + 1] = rssi]
      cnt == IF s.rssiHistoryCount < RSSI_HISTORY_SIZE
             THEN s.rssiHistoryCount + 1 ELSE s.rssiHistoryCount
  IN  [rssiHistory |-> hist,
       rssiHistoryIndex |-> (s.rssiHistoryIndex + 1) % RSSI_HISTORY_SIZE,
       rssiHistoryCount |-> cnt,
       avgRSSI |-> CDiv(SumFirst(hist, cnt), RSSI_HISTORY_SIZE)]

\* updateRSSIHistory storing the reading after the index has advanced
updateRSSIHistoryAfterAdvance(s, rssi) ==
  LET idx == (s.rssiHistoryIndex + 1) % RSSI_HISTORY_SIZE
      hist == [s.rssiHistory EXCEPT ![idx + 1] = rssi]
      cnt == IF s.rssiHistoryCount < RSSI_HISTORY_SIZE
             THEN s.rssiHistoryCount + 1 ELSE s.rssiHistoryCount
  IN  [rssiHistory |-> hist,
       rssiHistoryIndex |-> idx,
       rssiHistoryCount |-> cnt,
       avgRSSI |-> CDiv(SumFirst(hist, cnt), cnt)]

\* the RSSI history after updateRSSIHistory(rssi); the array is 1-based here
updateRSSIHistory(s, rssi) ==
  LET hist == [s.rssiHistory EXCEPT ![s.rssiHistoryIndex + 1] = rssi]
      cnt == IF s.rssiHistoryCount < RSSI_HISTORY_SIZE
             THEN s.rssiHistoryCount + 1 ELSE s.rssiHistoryCount
  IN  [rssiHistory |-> hist,
       rssiHistoryIndex |-> (s.rssiHistoryIndex + 1) % RSSI_HISTORY_SIZE,
       rssiHistoryCount |-> cnt,
       avgRSSI |-> CDiv(SumFirst(hist, cnt), cnt)]

\* thresholds of getSignalTrend
TREND_IMPROVING == 3
TREND_DETERIORATING == 5

\* rssiHistory[(rssiHistoryIndex - back + RSSI_HISTORY_SIZE) % RSSI_HISTORY_SIZE]
historyAt(s, back) ==
  s.rssiHistory[((s.rssiHistoryIndex - back + RSSI_HISTORY_SIZE) % RSSI_HISTORY_SIZE) + 1]

\* getSignalTrend taking the number of readings for the write position
getSignalTrendFromCount(s) ==
  IF s.rssiHistoryCount < 4 THEN "stable"
  ELSE LET t == [s EXCEPT !.rssiHistoryIndex = s.rssiHistoryCount % RSSI_HISTORY_SIZE]
           recent == CDiv(historyAt(t, 1) + historyAt(t, 2), 2)
           older == CDiv(historyAt(t, 3) + historyAt(t, 4), 2)
       IN  IF recent > older + TREND_IMPROVING THEN "improving"
           ELSE IF recent < older - TREND_DETERIORATING THEN "deteriorating"
           ELSE "stable"

getSignalTrend(s) ==
  IF s.rssiHistoryCount < 4 THEN "stable"
  ELSE LET recent == CDiv(historyAt(s, 1) + historyAt(s, 2), 2)
           older == CDiv(historyAt(s, 3) + historyAt(s, 4), 2)
       IN  IF recent > older + TREND_IMPROVING THEN "improving"
           ELSE IF recent < older - TREND_DETERIORATING THEN "deteriorating"
           ELSE "stable"

(***************************************************************************)
(* Frame decoder of notifyCallback.                                        *)
(***************************************************************************)
hr_samples(pData) == <<pData[4], pData[9], pData[14], pData[19]>>
spo2_samples(pData) == <<pData[5], pData[10], pData[15], pData[20]>>

\* the sum/count loops with the count incremented outside the range test
RECURSIVE accumulateCountingAll(_, _, _, _)
accumulateCountingAll(samples, lo, hi, k) ==
  IF k > Len(samples) THEN [sum |-> 0, count |-> 0]
  ELSE LET rest == accumulateCountingAll(samples, lo, hi, k + 1)
       IN  IF samples[k] >= lo /\ samples[k] <= hi
           THEN [sum |-> rest.sum + samples[k], count |-> rest.count + 1]
           ELSE [sum |-> rest.sum, count |-> rest.count + 1]

\* the sum/count loops over the four samples
RECURSIVE accumulate(_, _, _, _)
accumulate(samples, lo, hi, k) ==
  IF k > Len(samples) THEN [sum |-> 0, count |-> 0]
  ELSE LET rest == accumulate(samples, lo, hi, k + 1)
       IN  IF samples[k] >= lo /\ samples[k] <= hi
           THEN [sum |-> rest.sum + samples[k], count |-> rest.count + 1]
           ELSE rest

\* a notification payload of 20 bytes carrying the given samples
MkFrame(hrs, sps) ==
  [i \in 1..20 |->
     IF i \in {4, 9, 14, 19} THEN hrs[(i + 1) \div 5]
     ELSE IF i \in {5, 10, 15, 20} THEN sps[i \div 5]
     ELSE 0]

(***************************************************************************)
(* Inputs.                                                                 *)
(***************************************************************************)
ScenarioFrame == MkFrame(<<72, 75, 74, 0>>, <<98, 97, 98, 200>>)

\* notifications delivered while the bridge runs
Frames ==
  { ScenarioFrame,
    MkFrame(<<60, 61, 60, 61>>, <<95, 95, 96, 96>>),
    MkFrame(<<0, 29, 221, 255>>, <<98, 97, 98, 99>>) }

\* sample quadruples of the decoder runs
HRQuads ==
  { <<72, 75, 74, 0>>, <<0, 29, 221, 255>>, <<30, 0, 0, 0>>, <<0, 220, 0, 0>>,
    <<29, 30, 31, 221>>, <<220, 221, 30, 31>>, <<1, 2, 100, 3>>, <<255, 255, 255, 219>> }
SpO2Quads ==
  { <<98, 97, 98, 200>>, <<0, 59, 101, 255>>, <<60, 0, 0, 0>>, <<0, 100, 0, 0>>,
    <<59, 60, 61, 101>>, <<100, 101, 60, 61>>, <<99, 98, 98, 98>>, <<255, 0, 59, 99>> }
DecoderFrames ==
  { MkFrame(h, s) : h \in HRQuads, s \in SpO2Quads }
    \cup { SubSeq(ScenarioFrame, 1, 19), ScenarioFrame \o <<0>>, <<>> }

\* RSSI of the advertisements seen by a scan
AdvRssis == {-93, -92}
\* readings recorded in the signal runs
SignalReadings == {-60, -61, -62, -63, -64, -75, -76}
\* the reading that fills the history before a signal run
PrefillRssi == -60
\* values returned by pClient->getRssi()
RssiReadings == {0, -95, -96}
\* HTTP results: 200, another 2xx status, another status, a transport error
HttpCodes == {200, 201, 404, -1}
\* response bodies: not JSON, or a JSON object with optional boolean fields
Json(sc, ab, rc) ==
  [json |-> TRUE, should_connect |-> sc, is_active_bridge |-> ab,
   release_connection |-> rc]
NoBody == [json |-> FALSE, should_connect |-> "absent", is_active_bridge |-> "absent",
           release_connection |-> "absent"]
Bodies ==
  { NoBody,
    Json("absent", "absent", "absent"),
    Json("true", "true", "false"),
    Json("false", "false", "absent"),
    Json("true", "absent", "true"),
    Json("false", "true", "true") }

\* doc[key] | default
JsonOr(field, default) == IF field = "absent" THEN default ELSE field = "true"

(***************************************************************************)
(* State.                                                                  *)
(***************************************************************************)
VARIABLES
  pc,                 \* position of the main task in setup()/loop()
  time,               \* millis()
  linkUp,             \* pClient->isConnected()
  discPending,        \* the BLE task is about to call onDisconnect
  liveClients,        \* BLEClient objects created and not deleted
  pClient, pRemoteChar, pWriteChar,
  deviceConnected, isConnecting, shouldConnect, isActiveBridge,
  currentRSSI, avgRSSI, currentDistance, deviceMAC,
  pendingSpo2, pendingHR,
  storing,            \* notifyCallback between its stores and the value it holds
  dataQueue,          \* queue variant: the FreeRTOS queue, oldest sample first
  packetsSent, blePacketsReceived, connectionAttempts, reconnections,
  consecutiveFailures,
  connectionStartTime, lastDataTime, lastRSSIUpdate, lastScanTime,
  lastPostTime, lastStatusCheck,
  rssiHistory, rssiHistoryIndex, rssiHistoryCount,
  pushed,             \* the readings passed to updateRSSIHistory so far, oldest first
  foundDevice,
  now,                \* loop(): unsigned long now
  startTime,          \* connectToDevice(): unsigned long startTime
  lastStats,          \* loop(): static unsigned long lastStats
  payload,            \* sendDataToProxy(): the JSON document being posted
  attempt,            \* sendDataToServerHTTPS(): int attempt
  lastPostCall,       \* the last call of sendDataToProxy by loop(): millis() and now
  releaseSeen,        \* this iteration got release_connection while connected
  iterations,         \* iterations of loop() started
  ev                  \* the operation of the last step and its input

linkVars == <<linkUp, discPending, liveClients, pClient, pRemoteChar, pWriteChar,
              deviceConnected, isConnecting, reconnections>>
sigVars == <<currentRSSI, avgRSSI, currentDistance, rssiHistory, rssiHistoryIndex,
             rssiHistoryCount, pushed>>
dataVars == <<pendingSpo2, pendingHR, blePacketsReceived, lastDataTime, storing,
              dataQueue>>
directiveVars == <<shouldConnect, isActiveBridge>>
scanVars == <<foundDevice, deviceMAC, lastScanTime>>
connVars == <<connectionAttempts, consecutiveFailures, connectionStartTime, startTime>>
postVars == <<packetsSent, lastPostTime, payload, attempt, lastPostCall>>
loopVars == <<now, lastStats, lastRSSIUpdate, lastStatusCheck, releaseSeen, iterations>>
envVars == <<time>>
vars == <<pc, linkVars, sigVars, dataVars, directiveVars, scanVars, connVars,
          postVars, loopVars, envVars, ev>>

NoFrame == <<>>
\* sendDataToProxy has not been called yet
NoCall == [at |-> -1, stamp |-> -1]
\* the BLE task is not inside notifyCallback
NotStoring == [active |-> FALSE, spo2 |-> 0, counted |-> TRUE]
\* foundDevice == nullptr
NoDevice == [valid |-> FALSE, rssi |-> 0, addr |-> ""]
\* no request in flight
NoPayload == [valid |-> FALSE, spo2 |-> 0, hr |-> 0, rssi |-> 0, avg_rssi |-> 0,
              distance |-> 0, signal_quality |-> "", packet_count |-> 0,
              ble_packets |-> 0, is_connected |-> FALSE]
Ev(op) == [op |-> op, frame |-> NoFrame, body |-> NoBody, code |-> 0, cmd |-> <<>>]
\* a step the properties below do not observe
NoEv == Ev("")

\* the RSSI history as updateRSSIHistory and getSignalTrend read it
History ==
  [rssiHistory |-> rssiHistory, rssiHistoryIndex |-> rssiHistoryIndex,
   rssiHistoryCount |-> rssiHistoryCount]

Init ==
  /\ pc = "setup"
  /\ time = 0
  /\ linkUp = FALSE
  /\ discPending = FALSE
  /\ liveClients = 0
  /\ pClient = NULL
  /\ pRemoteChar = NULL
  /\ pWriteChar = NULL
  /\ deviceConnected = FALSE
  /\ isConnecting = FALSE
  /\ shouldConnect = TRUE
  /\ isActiveBridge = FALSE
  /\ currentRSSI = 0
  /\ avgRSSI = 0
  /\ currentDistance = 0
  /\ deviceMAC = ""
  /\ pendingSpo2 = -1
  /\ pendingHR = -1
  /\ storing = NotStoring
  /\ dataQueue = <<>>
  /\ packetsSent = 0
  /\ blePacketsReceived = 0
  /\ connectionAttempts = 0
  /\ reconnections = 0
  /\ consecutiveFailures = 0
  /\ connectionStartTime = 0
  /\ lastDataTime = 0
  /\ lastRSSIUpdate = 0
  /\ lastScanTime = 0
  /\ lastPostTime = 0
  /\ lastStatusCheck = 0
  /\ rssiHistory = [i \in 1..RSSI_HISTORY_SIZE |-> 0]
  /\ rssiHistoryIndex = 0
  /\ rssiHistoryCount = 0
  /\ pushed = <<>>
  /\ foundDevice = NoDevice
  /\ now = 0
  /\ startTime = 0
  /\ lastStats = 0
  /\ payload = NoPayload
  /\ attempt = 0
  /\ lastPostCall = NoCall
  /\ releaseSeen = FALSE
  /\ iterations = 0
  /\ ev = Ev("init")

(***************************************************************************)
(* Environment: the clock, the radio link, the Wi-Fi association.          *)
(***************************************************************************)
\* deviceConnected && pClient: the refresh made in every iteration
refreshDueAnyTime(connected, client, t, last) ==
  connected /\ client # NULL

\* deviceConnected && pClient && (now - lastRSSIUpdate > RSSI_UPDATE_INTERVAL)
refreshDue(connected, client, t, last) ==
  connected /\ client # NULL /\ ElapsedGT(t, last, RSSI_UPDATE_INTERVAL)

\* the main task is inside a call that takes time: a BLE scan, connect(),
\* getRssi(), an HTTP request, delay()
Blocked ==
  \/ pc \in {"setup_scanning", "scanning", "connecting", "posting", "end"}
  \/ /\ pc = "rssi"
     /\ refreshDue(deviceConnected, pClient, now, lastRSSIUpdate)

\* the run lasts MaxLoops iterations of loop()
Running == ~(pc = "loop" /\ iterations >= MaxLoops)

Tick ==
  /\ Blocked
  /\ time + MsPerTick <= MaxTicks * MsPerTick
  /\ time' = time + MsPerTick
  /\ ev' = NoEv
  /\ UNCHANGED <<pc, linkVars, sigVars, dataVars, directiveVars, scanVars,
                 connVars, postVars, loopVars>>

\* the clock of the timer runs
TickFine ==
  /\ Blocked
  /\ time + FineTickMs <= MaxFineTicks * FineTickMs
  /\ time' = time + FineTickMs
  /\ ev' = NoEv
  /\ UNCHANGED <<pc, linkVars, sigVars, dataVars, directiveVars, scanVars,
                 connVars, postVars, loopVars>>

\* the radio link drops: the BLE task clears the client's connected flag and
\* is then about to call onDisconnect
LinkLoss ==
  /\ Running
  /\ pClient # NULL
  /\ linkUp
  /\ linkUp' = FALSE
  /\ discPending' = TRUE
  /\ ev' = NoEv
  /\ UNCHANGED <<pc, liveClients, pClient, pRemoteChar, pWriteChar, deviceConnected,
                 isConnecting, reconnections, sigVars, dataVars, directiveVars,
                 scanVars, connVars, postVars, loopVars, envVars>>

(***************************************************************************)
(* BLE callbacks.                                                          *)
(***************************************************************************)
\* length < 20: longer payloads are decoded
tooShort(length) == length < 20

\* length != 20
badLength(length) == length # 20

\* hr_count == 0 || spo2_count == 0
outOfRange(hr, spo2) == hr.count = 0 \/ spo2.count = 0

\* a callback that sends the sample itself: the request is made and answered
\* inside the callback
notifyCallbackPublishing(pData) ==
  /\ Running
  /\ pClient # NULL /\ linkUp /\ pRemoteChar # NULL
  /\ blePacketsReceived < MaxPackets
  /\ IF badLength(Len(pData))
     THEN UNCHANGED <<dataVars, postVars>>
     ELSE LET hr == accumulate(hr_samples(pData), 30, 220, 1)
              spo2 == accumulate(spo2_samples(pData), 60, 100, 1)
          IN  IF outOfRange(hr, spo2)
              THEN UNCHANGED <<dataVars, postVars>>
              ELSE /\ pendingHR' = CDiv(hr.sum, hr.count)
                   /\ pendingSpo2' = CDiv(spo2.sum, spo2.count)
                   /\ blePacketsReceived' = blePacketsReceived + 1
                   /\ lastDataTime' = time
                   /\ packetsSent' = packetsSent + 1
                   /\ lastPostTime' = time
                   /\ UNCHANGED <<storing, dataQueue, payload, attempt, lastPostCall>>
  /\ ev' = [Ev("notify") EXCEPT !.frame = pData]
  /\ UNCHANGED <<pc, linkVars, sigVars, directiveVars, scanVars, connVars,
                 loopVars, envVars>>

notifyCallback(pData) ==
  /\ Running
  /\ pClient # NULL /\ linkUp /\ pRemoteChar # NULL
  /\ blePacketsReceived < MaxPackets
  /\ IF badLength(Len(pData))
     THEN UNCHANGED dataVars
     ELSE LET hr == accumulate(hr_samples(pData), 30, 220, 1)
              spo2 == accumulate(spo2_samples(pData), 60, 100, 1)
          IN  IF outOfRange(hr, spo2)
              THEN UNCHANGED dataVars
              ELSE /\ pendingHR' = CDiv(hr.sum, hr.count)
                   /\ pendingSpo2' = CDiv(spo2.sum, spo2.count)
                   /\ blePacketsReceived' = blePacketsReceived + 1
                   /\ lastDataTime' = time
                   /\ UNCHANGED <<storing, dataQueue>>
  /\ ev' = [Ev("notify") EXCEPT !.frame = pData]
  /\ UNCHANGED <<pc, linkVars, sigVars, directiveVars, scanVars, connVars,
                 postVars, loopVars, envVars>>

\* MyClientCallback::onDisconnect, called by the BLE task after a link loss
onDisconnect ==
  /\ Running
  /\ discPending
  /\ discPending' = FALSE
  /\ deviceConnected' = FALSE
  /\ isConnecting' = FALSE
  /\ reconnections' = IF deviceConnected THEN reconnections + 1 ELSE reconnections
  /\ ev' = NoEv
  /\ UNCHANGED <<pc, linkUp, liveClients, pClient, pRemoteChar, pWriteChar, sigVars,
                 dataVars, directiveVars, scanVars, connVars, postVars, loopVars,
                 envVars>>

(***************************************************************************)
(* Connection management.                                                  *)
(***************************************************************************)
Link ==
  [linkUp |-> linkUp, discPending |-> discPending, liveClients |-> liveClients,
   pClient |-> pClient, pRemoteChar |-> pRemoteChar, pWriteChar |-> pWriteChar,
   deviceConnected |-> deviceConnected, isConnecting |-> isConnecting,
   reconnections |-> reconnections]

SetLink(l) ==
  /\ linkUp' = l.linkUp
  /\ discPending' = l.discPending
  /\ liveClients' = l.liveClients
  /\ pClient' = l.pClient
  /\ pRemoteChar' = l.pRemoteChar
  /\ pWriteChar' = l.pWriteChar
  /\ deviceConnected' = l.deviceConnected
  /\ isConnecting' = l.isConnecting
  /\ reconnections' = l.reconnections

\* delete pClient without pClient = nullptr
releaseClientKeepingPointer(l, cb) ==
  IF l.pClient # NULL
  THEN LET fired == cb /\ (l.linkUp \/ l.discPending)
       IN  [l EXCEPT !.linkUp = FALSE,
                     !.discPending = FALSE,
                     !.deviceConnected = IF fired THEN FALSE ELSE @,
                     !.isConnecting = IF fired THEN FALSE ELSE @,
                     !.reconnections = IF fired /\ l.deviceConnected THEN @ + 1 ELSE @,
                     !.liveClients = @ - 1]
  ELSE l

\* pClient = nullptr without delete pClient
releaseClientLeaking(l, cb) ==
  IF l.pClient # NULL
  THEN LET fired == cb /\ (l.linkUp \/ l.discPending)
       IN  [l EXCEPT !.linkUp = FALSE,
                     !.discPending = FALSE,
                     !.deviceConnected = IF fired THEN FALSE ELSE @,
                     !.isConnecting = IF fired THEN FALSE ELSE @,
                     !.reconnections = IF fired /\ l.deviceConnected THEN @ + 1 ELSE @,
                     !.pClient = NULL]
  ELSE l

\* pClient->disconnect(); delay(100); delete pClient.  cb: the BLE task called
\* onDisconnect before the client was deleted.
releaseClient(l, cb) ==
  IF l.pClient # NULL
  THEN LET fired == cb /\ (l.linkUp \/ l.discPending)
       IN  [l EXCEPT !.linkUp = FALSE,
                     !.discPending = FALSE,
                     !.deviceConnected = IF fired THEN FALSE ELSE @,
                     !.isConnecting = IF fired THEN FALSE ELSE @,
                     !.reconnections = IF fired /\ l.deviceConnected THEN @ + 1 ELSE @,
                     !.liveClients = @ - 1,
                     !.pClient = NULL]
  ELSE l

\* cleanupConnection without deviceConnected = false
cleanupKeepingConnectedFlag(l, cb) ==
  [releaseClient(l, cb) EXCEPT !.pRemoteChar = NULL,
                               !.pWriteChar = NULL,
                               !.isConnecting = FALSE]

cleanupConnection(l, cb) ==
  [releaseClient(l, cb) EXCEPT !.pRemoteChar = NULL,
                               !.pWriteChar = NULL,
                               !.deviceConnected = FALSE,
                               !.isConnecting = FALSE]

\* a forced disconnection that only clears the connected flag
markDisconnected(l, cb) == [l EXCEPT !.deviceConnected = FALSE]

forceDisconnect(l, cb) == cleanupConnection(l, cb)

\* rssi < RSSI_CRITICAL: the connect test made against the wrong threshold
signalBelowCritical(rssi) == rssi < RSSI_CRITICAL

\* rssi < RSSI_MIN_CONNECT
signalTooWeak(rssi) == rssi < RSSI_MIN_CONNECT

\* the early returns of connectToDevice without the test of shouldConnect
connectRefusalIgnoringDirective(l, dev, directive) ==
  IF l.deviceConnected \/ l.isConnecting THEN "busy"
  ELSE IF ~dev.valid THEN "no_device"
  ELSE IF signalTooWeak(dev.rssi) THEN "weak_signal"
  ELSE ""

\* the early returns of connectToDevice: "" when the attempt goes ahead
connectRefusal(l, dev, directive) ==
  IF l.deviceConnected \/ l.isConnecting THEN "busy"
  ELSE IF ~dev.valid THEN "no_device"
  ELSE IF signalTooWeak(dev.rssi) THEN "weak_signal"
  ELSE IF ~directive THEN "proxy_refuses"
  ELSE ""

\* connectToDevice up to the call of pClient->connect(foundDevice)
connectToDevice_begin(next) ==
  LET refusal == connectRefusal(Link, foundDevice, shouldConnect)
  IN  IF refusal # ""
      THEN /\ pc' = next
           /\ ev' = Ev(refusal)
           /\ UNCHANGED <<linkVars, connVars>>
      ELSE /\ connectionAttempts < MaxAttempts
           /\ connectionAttempts' = connectionAttempts + 1
           /\ \E cb \in BOOLEAN :
                LET l == cleanupConnection([Link EXCEPT !.isConnecting = TRUE], cb)
                IN  SetLink([l EXCEPT !.pClient = CLIENT, !.liveClients = @ + 1])
           /\ startTime' = time
           /\ pc' = "connecting"
           /\ ev' = Ev("connect_begin")
           /\ UNCHANGED <<consecutiveFailures, connectionStartTime>>

\* results of the connection steps after pClient->connect() was called
ConnectOutcomes ==
  {"connect_failed", "no_service", "no_char", "no_notify", "no_write_char",
   "write_char_readonly", "complete"}

\* the byte of the start-streaming command
START_STREAMING == 241

\* the steps whose failure ends the attempt, with the write of the command
\* among them
abortsAttemptOnCommand(outcome) ==
  outcome \in {"no_service", "no_char", "no_notify", "no_write_char",
               "write_char_readonly"}

\* the steps after connect() whose failure ends the attempt: service,
\* notify characteristic, canNotify
abortsAttempt(outcome) == outcome \in {"no_service", "no_char", "no_notify"}

\* pWriteChar->writeValue(cmd, 1, true) when pWriteChar && pWriteChar->canWrite()
writeValue(outcome) == IF outcome = "complete" THEN <<START_STREAMING>> ELSE <<>>

\* MyClientCallback::onConnect, called inside pClient->connect()
onConnect(l) ==
  [l EXCEPT !.linkUp = TRUE, !.deviceConnected = TRUE, !.isConnecting = FALSE]

\* connectToDevice from the return of pClient->connect(foundDevice)
connectToDevice_finish ==
  /\ pc = "connecting"
  /\ pc' = "status"
  /\ startTime' = 0
  /\ \E outcome \in ConnectOutcomes, cb \in BOOLEAN :
       IF outcome = "connect_failed"
       THEN /\ consecutiveFailures' = consecutiveFailures + 1
            /\ SetLink(cleanupConnection([Link EXCEPT !.isConnecting = FALSE], cb))
            /\ ev' = Ev("connect_failed")
            /\ UNCHANGED <<connectionStartTime, lastDataTime, sigVars, lastRSSIUpdate>>
       ELSE /\ connectionStartTime' = time
            /\ lastDataTime' = time
            /\ IF ElapsedGT(time, startTime, CONNECTION_TIMEOUT)
               THEN /\ consecutiveFailures' = 0 + 1
                    /\ SetLink(cleanupConnection(onConnect(Link), cb))
                    /\ ev' = Ev("connect_timeout")
                    /\ UNCHANGED <<sigVars, lastRSSIUpdate>>
               ELSE IF abortsAttempt(outcome)
               THEN /\ consecutiveFailures' = 0 + 1
                    /\ SetLink(cleanupConnection(onConnect(Link), cb))
                    /\ ev' = Ev(outcome)
                    /\ UNCHANGED <<sigVars, lastRSSIUpdate>>
               ELSE /\ consecutiveFailures' = 0
                    /\ SetLink([onConnect(Link) EXCEPT
                                  !.pRemoteChar = CHAR_NOTIFY,
                                  !.pWriteChar = IF outcome = "no_write_char"
                                                 THEN NULL ELSE CHAR_WRITE])
                    /\ LET h == updateRSSIHistory(
                                  [rssiHistory |-> rssiHistory,
                                   rssiHistoryIndex |-> rssiHistoryIndex,
                                   rssiHistoryCount |-> rssiHistoryCount],
                                  foundDevice.rssi)
                       IN  /\ currentRSSI' = foundDevice.rssi
                           /\ rssiHistory' = h.rssiHistory
                           /\ rssiHistoryIndex' = h.rssiHistoryIndex
                           /\ rssiHistoryCount' = h.rssiHistoryCount
                           /\ avgRSSI' = h.avgRSSI
                           /\ pushed' = Append(pushed, foundDevice.rssi)
                           /\ currentDistance' = calculateDistance(foundDevice.rssi)
                    /\ lastRSSIUpdate' = time
                    /\ ev' = [Ev("connect_" \o outcome) EXCEPT !.cmd = writeValue(outcome)]
  /\ UNCHANGED <<pendingSpo2, pendingHR, blePacketsReceived, storing, dataQueue, directiveVars,
                 scanVars, connectionAttempts, postVars, now, lastStats, lastStatusCheck,
                 releaseSeen, iterations, envVars>>

(***************************************************************************)
(* BLE scan.                                                               *)
(***************************************************************************)
\* performScan with its first test inverted: it returns when the node is
\* neither connected nor connecting
performScanInverted(scanning, skipped) ==
  IF ~(deviceConnected \/ isConnecting)
  THEN /\ pc' = skipped
       /\ UNCHANGED foundDevice
  ELSE /\ pc' = scanning
       /\ foundDevice' = NoDevice

\* performScan up to the blocking pBLEScan->start()
performScan_begin(scanning, skipped) ==
  IF deviceConnected \/ isConnecting
  THEN /\ pc' = skipped
       /\ UNCHANGED foundDevice
  ELSE /\ pc' = scanning
       /\ foundDevice' = NoDevice

\* onResult without pBLEScan->stop(): the scan goes on after a match
onResultKeepsScanning(matches, rssi) ==
  /\ pc \in {"setup_scanning", "scanning"}
  /\ IF matches
     THEN /\ foundDevice' = [valid |-> TRUE, rssi |-> rssi, addr |-> "00:a0:50:36:ff:de"]
          /\ deviceMAC' = "00:a0:50:36:ff:de"
     ELSE UNCHANGED <<foundDevice, deviceMAC>>
  /\ ev' = IF matches THEN Ev("scan_match") ELSE NoEv
  /\ UNCHANGED <<pc, lastScanTime, linkVars, sigVars, dataVars, directiveVars, connVars,
                 postVars, loopVars, envVars>>

\* MyScanCallback::onResult for an advertisement whose name matches the filter
\* or not; a match stops the scan
onResult(matches, rssi) ==
  /\ pc \in {"setup_scanning", "scanning"}
  /\ IF matches
     THEN /\ foundDevice' = [valid |-> TRUE, rssi |-> rssi, addr |-> "00:a0:50:36:ff:de"]
          /\ deviceMAC' = "00:a0:50:36:ff:de"
          /\ pc' = IF pc = "scanning" THEN "scan_stopped" ELSE "setup_scan_stopped"
     ELSE UNCHANGED <<foundDevice, deviceMAC, pc>>
  /\ ev' = IF matches THEN Ev("scan_match") ELSE NoEv
  /\ UNCHANGED <<lastScanTime, linkVars, sigVars, dataVars, directiveVars, connVars,
                 postVars, loopVars, envVars>>

\* performScan from the return of pBLEScan->start()
performScan_end ==
  /\ pc \in {"setup_scanning", "setup_scan_stopped", "scanning", "scan_stopped"}
  /\ lastScanTime' = time
  /\ pc' = IF pc \in {"scanning", "scan_stopped"} THEN "connect" ELSE "loop"
  /\ ev' = Ev("scan_end")
  /\ UNCHANGED <<foundDevice, deviceMAC, linkVars, sigVars, dataVars, directiveVars,
                 connVars, postVars, loopVars, envVars>>

setup ==
  /\ pc = "setup"
  /\ performScan_begin("setup_scanning", "loop")
  /\ ev' = NoEv
  /\ UNCHANGED <<deviceMAC, lastScanTime, linkVars, sigVars, dataVars, directiveVars,
                 connVars, postVars, loopVars, envVars>>

(***************************************************************************)
(* loop().                                                                 *)
(***************************************************************************)
\* now = millis(); physical connection check
loop_check ==
  /\ pc = "loop"
  /\ iterations < MaxLoops
  /\ iterations' = iterations + 1
  /\ pc' = "rssi"
  /\ now' = time
  /\ releaseSeen' = FALSE
  /\ IF deviceConnected /\ pClient # NULL /\ ~linkUp
     THEN /\ \E cb \in BOOLEAN : SetLink(cleanupConnection(Link, cb))
          /\ ev' = Ev("teardown_link_lost")
     ELSE /\ UNCHANGED linkVars
          /\ ev' = NoEv
  /\ UNCHANGED <<sigVars, dataVars, directiveVars, scanVars, connVars, postVars,
                 lastStats, lastRSSIUpdate, lastStatusCheck, envVars>>

\* the same test made on the smoothed RSSI
smoothedSignalLost(newRSSI, smoothed) == smoothed <= RSSI_FORCE_DISCONNECT

\* the test that ends the link for signal reasons after an RSSI refresh
signalLost(newRSSI, smoothed) == newRSSI <= RSSI_FORCE_DISCONNECT

\* RSSI refresh
loop_rssi ==
  /\ pc = "rssi"
  /\ pc' = "timeout"
  /\ IF refreshDue(deviceConnected, pClient, now, lastRSSIUpdate)
     THEN /\ lastRSSIUpdate' = now
          /\ \E newRSSI \in (IF linkUp THEN RssiReadings ELSE {0}) :
               IF newRSSI # 0 /\ newRSSI < 0
               THEN LET h == updateRSSIHistory(
                               [rssiHistory |-> rssiHistory,
                                rssiHistoryIndex |-> rssiHistoryIndex,
                                rssiHistoryCount |-> rssiHistoryCount],
                               newRSSI)
                    IN  /\ currentRSSI' = newRSSI
                        /\ rssiHistory' = h.rssiHistory
                        /\ rssiHistoryIndex' = h.rssiHistoryIndex
                        /\ rssiHistoryCount' = h.rssiHistoryCount
                        /\ avgRSSI' = h.avgRSSI
                        /\ pushed' = Append(pushed, newRSSI)
                        /\ currentDistance' = calculateDistance(newRSSI)
                        /\ IF signalLost(newRSSI, h.avgRSSI)
                           THEN /\ \E cb \in BOOLEAN :
                                     SetLink(forceDisconnect(Link, cb))
                                /\ ev' = Ev("teardown_signal")
                           ELSE /\ UNCHANGED linkVars
                                /\ ev' = Ev("rssi_refresh")
               ELSE /\ UNCHANGED <<sigVars, linkVars>>
                    /\ ev' = Ev("rssi_invalid")
     ELSE /\ UNCHANGED <<lastRSSIUpdate, sigVars, linkVars>>
          /\ ev' = NoEv
  /\ UNCHANGED <<dataVars, directiveVars, scanVars, connVars, postVars, now,
                 lastStats, lastStatusCheck, releaseSeen, iterations, envVars>>

\* now - lastDataTime > DATA_TIMEOUT
dataTimedOut(t, last) == ElapsedGT(t, last, DATA_TIMEOUT)

\* data timeout
loop_timeout ==
  /\ pc = "timeout"
  /\ pc' = "scan"
  /\ IF deviceConnected /\ dataTimedOut(now, lastDataTime)
     THEN /\ \E cb \in BOOLEAN : SetLink(forceDisconnect(Link, cb))
          /\ ev' = Ev("teardown_timeout")
     ELSE /\ UNCHANGED linkVars
          /\ ev' = NoEv
  /\ UNCHANGED <<sigVars, dataVars, directiveVars, scanVars, connVars, postVars,
                 loopVars, envVars>>

\* now > SCAN_INTERVAL: the test made on the clock instead of the elapsed time
scanDueSinceBoot(t, last) == t > SCAN_INTERVAL

\* now - lastScanTime > SCAN_INTERVAL
scanDue(t, last) == ElapsedGT(t, last, SCAN_INTERVAL)

\* scan when not connected
loop_scan ==
  /\ pc = "scan"
  /\ IF ~deviceConnected /\ ~isConnecting
        /\ scanDue(now, lastScanTime)
     THEN /\ performScan_begin("scanning", "connect")
          /\ ev' = NoEv
     ELSE /\ pc' = "connect"
          /\ ev' = NoEv
          /\ UNCHANGED foundDevice
  /\ UNCHANGED <<deviceMAC, lastScanTime, linkVars, sigVars, dataVars, directiveVars,
                 connVars, postVars, loopVars, envVars>>

\* connection attempt when a device was found
loop_connect ==
  /\ pc = "connect"
  /\ IF ~deviceConnected /\ ~isConnecting /\ foundDevice.valid
     THEN connectToDevice_begin("status")
     ELSE /\ pc' = "status"
          /\ ev' = NoEv
          /\ UNCHANGED <<linkVars, connVars>>
  /\ UNCHANGED <<sigVars, dataVars, directiveVars, scanVars, postVars, loopVars,
                 envVars>>

(***************************************************************************)
(* Communication with the proxy.                                           *)
(***************************************************************************)
\* httpCode == 200 and the body deserializes
exchangeOk(code, body) == code = 200 /\ body.json

\* a status request that keeps the previous value of a field the answer omits
pollDirectiveMerging(code, body, prevShould, prevActive) ==
  IF exchangeOk(code, body)
  THEN [shouldConnect |-> JsonOr(body.should_connect, prevShould),
        isActiveBridge |-> JsonOr(body.is_active_bridge, prevActive)]
  ELSE [shouldConnect |-> prevShould, isActiveBridge |-> prevActive]

\* a status request that falls back to "do not connect" when it fails
pollDirectiveFailClosed(code, body, prevShould, prevActive) ==
  IF exchangeOk(code, body)
  THEN [shouldConnect |-> JsonOr(body.should_connect, TRUE),
        isActiveBridge |-> JsonOr(body.is_active_bridge, FALSE)]
  ELSE [shouldConnect |-> FALSE, isActiveBridge |-> FALSE]

\* shouldConnect / isActiveBridge after the answer of the status request
pollDirective(code, body, prevShould, prevActive) ==
  IF exchangeOk(code, body)
  THEN [shouldConnect |-> JsonOr(body.should_connect, TRUE),
        isActiveBridge |-> JsonOr(body.is_active_bridge, FALSE)]
  ELSE [shouldConnect |-> prevShould, isActiveBridge |-> prevActive]

\* the handoff test of checkProxyStatus on a parsed answer
pollHandoff(body, should, connected) == ~should /\ connected

\* the handoff test of sendDataToProxy on a parsed answer
postHandoff(body, should, connected) ==
  body.release_connection = "true" /\ connected

\* a parsed answer carries release_connection = true while the node is connected
releaseDelivered(code, body) ==
  exchangeOk(code, body) /\ body.release_connection = "true" /\ deviceConnected

checkProxyStatus(wifi) ==
  IF ~wifi
  THEN /\ ev' = Ev("poll_no_wifi")
       /\ UNCHANGED <<lastStatusCheck, directiveVars, linkVars, releaseSeen>>
  ELSE IF ElapsedLT(time, lastStatusCheck, STATUS_CHECK_INTERVAL)
  THEN /\ ev' = Ev("poll_not_due")
       /\ UNCHANGED <<lastStatusCheck, directiveVars, linkVars, releaseSeen>>
  ELSE /\ lastStatusCheck' = time
       /\ \E code \in HttpCodes, body \in Bodies :
            /\ code # 200 => body = NoBody
            /\ LET d == pollDirective(code, body, shouldConnect, isActiveBridge)
               IN  /\ shouldConnect' = d.shouldConnect
                   /\ isActiveBridge' = d.isActiveBridge
                   /\ IF exchangeOk(code, body)
                         /\ pollHandoff(body, d.shouldConnect, deviceConnected)
                      THEN \E cb \in BOOLEAN : SetLink(forceDisconnect(Link, cb))
                      ELSE UNCHANGED linkVars
            /\ releaseSeen' = (releaseSeen \/ releaseDelivered(code, body))
            /\ ev' = [Ev(IF exchangeOk(code, body) THEN "poll_ok" ELSE "poll_failed")
                        EXCEPT !.body = body]

loop_status ==
  /\ pc = "status"
  /\ pc' = "post"
  /\ \E wifi \in BOOLEAN : checkProxyStatus(wifi)
  /\ UNCHANGED <<sigVars, dataVars, scanVars, connVars, postVars, now, lastStats,
                 lastRSSIUpdate, iterations, envVars>>

\* the JSON document of sendDataToProxy
telemetryDocument ==
  [valid |-> TRUE, spo2 |-> pendingSpo2, hr |-> pendingHR,
   rssi |-> currentRSSI, avg_rssi |-> avgRSSI,
   distance |-> currentDistance,
   signal_quality |-> getSignalQuality(currentRSSI),
   packet_count |-> packetsSent,
   ble_packets |-> blePacketsReceived,
   is_connected |-> deviceConnected]

\* sendDataToProxy up to http.POST(jsonPayload)
sendDataToProxy_begin(wifi) ==
  IF ~wifi \/ pendingSpo2 < 0 \/ pendingHR < 0
  THEN /\ pc' = "end"
       /\ lastPostTime' = now
       /\ ev' = Ev("post_not_sent")
       /\ UNCHANGED payload
  ELSE /\ pc' = "posting"
       /\ payload' = telemetryDocument
       /\ ev' = NoEv
       /\ UNCHANGED lastPostTime

\* pending data: publish when the interval has elapsed
loop_post ==
  /\ pc = "post"
  /\ IF pendingSpo2 > 0 /\ pendingHR > 0 /\ ElapsedGT(now, lastPostTime, POST_INTERVAL)
     THEN /\ \E wifi \in BOOLEAN : sendDataToProxy_begin(wifi)
          /\ lastPostCall' = [at |-> time, stamp |-> now]
     ELSE /\ pc' = "end"
          /\ ev' = NoEv
          /\ UNCHANGED <<lastPostTime, payload, lastPostCall>>
  /\ UNCHANGED <<packetsSent, attempt, linkVars, sigVars, dataVars, directiveVars,
                 scanVars, connVars, loopVars, envVars>>

\* the stamp of a publish kept only when the publish succeeded
postStampOnSuccess(success, stamp, last) == IF success THEN stamp ELSE last

\* loop(): lastPostTime = now after sendDataToProxy(), whatever it returned
postStamp(success, stamp, last) == stamp

\* sendDataToProxy from the return of http.POST, then lastPostTime = now
sendDataToProxy_finish ==
  /\ pc = "posting"
  /\ pc' = "end"
  /\ payload' = NoPayload
  /\ \E code \in HttpCodes, body \in Bodies :
       /\ code # 200 => body = NoBody
       /\ lastPostTime' = postStamp(code = 200, now, lastPostTime)
       /\ IF code = 200
          THEN /\ LET d == pollDirective(code, body, shouldConnect, isActiveBridge)
                  IN  /\ shouldConnect' = d.shouldConnect
                      /\ isActiveBridge' = d.isActiveBridge
                      /\ IF body.json /\ postHandoff(body, d.shouldConnect, deviceConnected)
                         THEN \E cb \in BOOLEAN : SetLink(forceDisconnect(Link, cb))
                         ELSE UNCHANGED linkVars
               /\ packetsSent' = packetsSent + 1
               /\ pendingSpo2' = -1
               /\ pendingHR' = -1
          ELSE UNCHANGED <<directiveVars, linkVars, packetsSent, pendingSpo2, pendingHR>>
       /\ releaseSeen' = (releaseSeen \/ releaseDelivered(code, body))
       /\ ev' = [Ev(IF code = 200 THEN "post_ok" ELSE "post_failed")
                   EXCEPT !.body = body, !.code = code]
  /\ UNCHANGED <<blePacketsReceived, lastDataTime, storing, dataQueue, attempt, lastPostCall, sigVars,
                 scanVars,
                 connVars, now,
                 lastStats, lastRSSIUpdate, lastStatusCheck, iterations, envVars>>

\* Wi-Fi reconnection, periodic statistics, delay(50)
loop_end ==
  /\ pc = "end"
  /\ pc' = "loop"
  /\ lastStats' = IF ElapsedGT(now, lastStats, STATS_INTERVAL) THEN now ELSE lastStats
  /\ ev' = NoEv
  /\ UNCHANGED <<linkVars, sigVars, dataVars, directiveVars, scanVars, connVars,
                 postVars, now, lastRSSIUpdate, lastStatusCheck, releaseSeen,
                 iterations, envVars>>

(***************************************************************************)
(* Specification of the bridge.                                            *)
(***************************************************************************)
Next ==
  \/ Tick
  \/ LinkLoss
  \/ \E pData \in Frames : notifyCallback(pData)
  \/ onDisconnect
  \/ \E matches \in BOOLEAN, rssi \in AdvRssis : onResult(matches, rssi)
  \/ setup
  \/ performScan_end
  \/ loop_check
  \/ loop_rssi
  \/ loop_timeout
  \/ loop_scan
  \/ loop_connect
  \/ connectToDevice_finish
  \/ loop_status
  \/ loop_post
  \/ sendDataToProxy_finish
  \/ loop_end

Spec == Init /\ [][Next]_vars

\* the steps of the main task: setup(), then loop() and the calls it makes
MainTask ==
  \/ setup
  \/ performScan_end
  \/ loop_check
  \/ loop_rssi
  \/ loop_timeout
  \/ loop_scan
  \/ loop_connect
  \/ connectToDevice_finish
  \/ loop_status
  \/ loop_post
  \/ sendDataToProxy_finish
  \/ loop_end

\* the bridge with a main task that is always scheduled and whose blocking
\* calls (scan, connect, HTTP request, delay) return
\* the wearable sends one frame over and over
NextLive ==
  \/ Tick
  \/ LinkLoss
  \/ notifyCallback(ScenarioFrame)
  \/ onDisconnect
  \/ \E matches \in BOOLEAN, rssi \in AdvRssis : onResult(matches, rssi)
  \/ MainTask

SpecLive == Init /\ [][NextLive]_vars /\ WF_vars(MainTask)

TypeOK ==
  /\ liveClients \in 0..1
  /\ time \in 0..(MaxTicks * MsPerTick)
  /\ iterations \in 0..MaxLoops
  /\ pendingHR \in -1..255 /\ pendingSpo2 \in -1..255

(***************************************************************************)
(* Specification of the decoder: the bridge is streaming (first iteration  *)
(* of loop() done, wearable connected at boot) and notifications arrive.   *)
(***************************************************************************)
Streaming ==
  /\ pc = "end"
  /\ time = 0
  /\ linkUp = TRUE
  /\ discPending = FALSE
  /\ liveClients = 1
  /\ pClient = CLIENT
  /\ pRemoteChar = CHAR_NOTIFY
  /\ pWriteChar = CHAR_WRITE
  /\ deviceConnected = TRUE
  /\ isConnecting = FALSE
  /\ shouldConnect = TRUE
  /\ isActiveBridge = FALSE
  /\ currentRSSI = -92
  /\ avgRSSI = -92
  /\ currentDistance = calculateDistance(-92)
  /\ deviceMAC = "00:a0:50:36:ff:de"
  /\ pendingSpo2 = -1
  /\ pendingHR = -1
  /\ storing = NotStoring
  /\ dataQueue = <<>>
  /\ packetsSent = 0
  /\ blePacketsReceived = 0
  /\ connectionAttempts = 1
  /\ reconnections = 0
  /\ consecutiveFailures = 0
  /\ connectionStartTime = 0
  /\ lastDataTime = 0
  /\ lastRSSIUpdate = 0
  /\ lastScanTime = 0
  /\ lastPostTime = 0
  /\ lastStatusCheck = 0
  /\ rssiHistory = [i \in 1..RSSI_HISTORY_SIZE |-> IF i = 1 THEN -92 ELSE 0]
  /\ rssiHistoryIndex = 1
  /\ rssiHistoryCount = 1
  /\ pushed = <<-92>>
  /\ foundDevice = [valid |-> TRUE, rssi |-> -92, addr |-> "00:a0:50:36:ff:de"]
  /\ now = 0
  /\ startTime = 0
  /\ lastStats = 0
  /\ payload = NoPayload
  /\ attempt = 0
  /\ lastPostCall = NoCall
  /\ releaseSeen = FALSE
  /\ iterations = 1
  /\ ev = NoEv

NextDecoder ==
  \/ Tick
  \/ \E pData \in DecoderFrames : notifyCallback(pData)

SpecDecoder == Streaming /\ [][NextDecoder]_vars

\* the streaming state the decoder runs start from is a state of the bridge
StreamingReached == Streaming

(***************************************************************************)
(* Specification of the timers: the bridge from boot on a clock of         *)
(* FineTickMs, with a quiet wearable (no notification, no link loss).      *)
(***************************************************************************)
NextTimers ==
  \/ TickFine
  \/ \E matches \in BOOLEAN, rssi \in AdvRssis : onResult(matches, rssi)
  \/ setup
  \/ performScan_end
  \/ loop_check
  \/ loop_rssi
  \/ loop_timeout
  \/ loop_scan
  \/ loop_connect
  \/ connectToDevice_finish
  \/ loop_status
  \/ loop_post
  \/ loop_end

SpecTimers == Init /\ [][NextTimers]_vars

(***************************************************************************)
(* Specification of the signal estimator: readings are recorded one after  *)
(* the other (currentRSSI, updateRSSIHistory, currentDistance, as the RSSI *)
(* refresh of loop() and connectToDevice do) and the telemetry document is *)
(* built from the result.  A run starts with an empty history or with      *)
(* MaxPrefill earlier readings of PrefillRssi in it.                       *)
(***************************************************************************)
SignalInit ==
  /\ pc = "end"
  /\ time = 0
  /\ linkUp = TRUE
  /\ discPending = FALSE
  /\ liveClients = 1
  /\ pClient = CLIENT
  /\ pRemoteChar = CHAR_NOTIFY
  /\ pWriteChar = CHAR_WRITE
  /\ deviceConnected = TRUE
  /\ isConnecting = FALSE
  /\ shouldConnect = TRUE
  /\ isActiveBridge = FALSE
  /\ \E k \in {0, MaxPrefill} :
       /\ pushed = [i \in 1..k |-> PrefillRssi]
       /\ rssiHistory = [i \in 1..RSSI_HISTORY_SIZE |-> IF i <= k THEN PrefillRssi ELSE 0]
       /\ rssiHistoryIndex = k % RSSI_HISTORY_SIZE
       /\ rssiHistoryCount = k
       /\ currentRSSI = IF k = 0 THEN 0 ELSE PrefillRssi
       /\ avgRSSI = IF k = 0 THEN 0 ELSE PrefillRssi
       /\ currentDistance = IF k = 0 THEN 0 ELSE calculateDistance(PrefillRssi)
  /\ deviceMAC = "00:a0:50:36:ff:de"
  /\ pendingSpo2 = 97
  /\ pendingHR = 73
  /\ storing = NotStoring
  /\ dataQueue = <<>>
  /\ packetsSent = 0
  /\ blePacketsReceived = 1
  /\ connectionAttempts = 1
  /\ reconnections = 0
  /\ consecutiveFailures = 0
  /\ connectionStartTime = 0
  /\ lastDataTime = 0
  /\ lastRSSIUpdate = 0
  /\ lastScanTime = 0
  /\ lastPostTime = 0
  /\ lastStatusCheck = 0
  /\ foundDevice = [valid |-> TRUE, rssi |-> PrefillRssi, addr |-> "00:a0:50:36:ff:de"]
  /\ now = 0
  /\ startTime = 0
  /\ lastStats = 0
  /\ payload = NoPayload
  /\ attempt = 0
  /\ lastPostCall = NoCall
  /\ releaseSeen = FALSE
  /\ iterations = 1
  /\ ev = NoEv

\* the run records MaxPushes readings
PushesLeft ==
  IF Len(pushed) < MaxPrefill THEN Len(pushed) < MaxPushes
  ELSE Len(pushed) < MaxPrefill + MaxPushes

\* currentRSSI = rssi; updateRSSIHistory(rssi); currentDistance = calculateDistance(rssi)
recordRssi(rssi) ==
  /\ PushesLeft
  /\ LET h == updateRSSIHistory(History, rssi)
     IN  /\ currentRSSI' = rssi
         /\ rssiHistory' = h.rssiHistory
         /\ rssiHistoryIndex' = h.rssiHistoryIndex
         /\ rssiHistoryCount' = h.rssiHistoryCount
         /\ avgRSSI' = h.avgRSSI
         /\ pushed' = Append(pushed, rssi)
         /\ currentDistance' = calculateDistance(rssi)
  /\ ev' = Ev("rssi_recorded")
  /\ UNCHANGED <<pc, linkVars, dataVars, directiveVars, scanVars, connVars, postVars,
                 loopVars, envVars>>

\* the telemetry document built from the current signal values
buildDocument ==
  /\ rssiHistoryCount > 0
  /\ payload' = telemetryDocument
  /\ ev' = Ev("document_built")
  /\ UNCHANGED <<pc, linkVars, sigVars, dataVars, directiveVars, scanVars, connVars,
                 packetsSent, lastPostTime, attempt, lastPostCall, loopVars, envVars>>

NextSignal ==
  \/ \E rssi \in SignalReadings : recordRssi(rssi)
  \/ buildDocument

SpecSignal == SignalInit /\ [][NextSignal]_vars

(***************************************************************************)
(* Specification of the distance estimate: calculateDistance is applied to *)
(* one raw reading after the other, plausible or not, and the reading and  *)
(* its estimate are kept in currentRSSI and currentDistance.               *)
(***************************************************************************)
\* raw readings, from below the plausible range to above it
RawRssis == -125 .. 5

DistanceInit ==
  /\ SignalInit
  /\ rssiHistoryCount = 0

calculateDistance_call(rssi) ==
  /\ currentRSSI' = rssi
  /\ currentDistance' = calculateDistance(rssi)
  /\ ev' = Ev("distance")
  /\ UNCHANGED <<pc, linkVars, avgRSSI, rssiHistory, rssiHistoryIndex, rssiHistoryCount,
                 pushed, dataVars, directiveVars, scanVars, connVars, postVars,
                 loopVars, envVars>>

NextDistance == \E rssi \in RawRssis : calculateDistance_call(rssi)

SpecDistance == DistanceInit /\ [][NextDistance]_vars

(***************************************************************************)
(* Specification of the pending sample: the streaming bridge with the      *)
(* notification callback (BLE task) and sendDataToProxy (main task) taken  *)
(* one access of pendingHR / pendingSpo2 at a time, so that the accesses   *)
(* of the two tasks interleave.                                            *)
(***************************************************************************)
\* notifyCallback up to pendingHR = hr_sum / hr_count
notifyCallback_hr(pData) ==
  /\ Running
  /\ pClient # NULL /\ linkUp /\ pRemoteChar # NULL
  /\ storing = NotStoring
  /\ blePacketsReceived < MaxPackets
  /\ IF badLength(Len(pData))
     THEN UNCHANGED <<pendingHR, storing>>
     ELSE LET hr == accumulate(hr_samples(pData), 30, 220, 1)
              spo2 == accumulate(spo2_samples(pData), 60, 100, 1)
          IN  IF outOfRange(hr, spo2)
              THEN UNCHANGED <<pendingHR, storing>>
              ELSE /\ pendingHR' = CDiv(hr.sum, hr.count)
                   /\ storing' = [active |-> TRUE, spo2 |-> CDiv(spo2.sum, spo2.count),
                                   counted |-> FALSE]
  /\ ev' = [Ev("notify_hr") EXCEPT !.frame = pData]
  /\ UNCHANGED <<pendingSpo2, blePacketsReceived, lastDataTime, dataQueue, pc, linkVars, sigVars,
                 directiveVars, scanVars, connVars, postVars, loopVars, envVars>>

\* notifyCallback: pendingSpo2 = spo2_sum / spo2_count
notifyCallback_spo2 ==
  /\ storing.active
  /\ pendingSpo2' = storing.spo2
  /\ storing' = [NotStoring EXCEPT !.counted = FALSE]
  /\ ev' = Ev("notify_spo2")
  /\ UNCHANGED <<pendingHR, blePacketsReceived, lastDataTime, dataQueue, pc, linkVars,
                 sigVars, directiveVars, scanVars, connVars, postVars, loopVars, envVars>>

\* notifyCallback from blePacketsReceived++ to its end
notifyCallback_count ==
  /\ ~storing.active /\ ~storing.counted
  /\ blePacketsReceived' = blePacketsReceived + 1
  /\ lastDataTime' = time
  /\ storing' = NotStoring
  /\ ev' = Ev("notify_count")
  /\ UNCHANGED <<pendingHR, pendingSpo2, dataQueue, pc, linkVars, sigVars, directiveVars,
                 scanVars, connVars, postVars, loopVars, envVars>>

\* pending data: the test of loop(), then sendDataToProxy up to
\* doc["spo2"] = pendingSpo2
loop_post_spo2 ==
  /\ pc = "post"
  /\ IF pendingSpo2 > 0 /\ pendingHR > 0 /\ ElapsedGT(now, lastPostTime, POST_INTERVAL)
     THEN /\ \E wifi \in BOOLEAN :
               IF ~wifi \/ pendingSpo2 < 0 \/ pendingHR < 0
               THEN /\ pc' = "end"
                    /\ lastPostTime' = now
                    /\ ev' = Ev("post_not_sent")
                    /\ UNCHANGED payload
               ELSE /\ pc' = "doc"
                    /\ payload' = [NoPayload EXCEPT !.spo2 = pendingSpo2]
                    /\ ev' = NoEv
                    /\ UNCHANGED lastPostTime
          /\ lastPostCall' = [at |-> time, stamp |-> now]
     ELSE /\ pc' = "end"
          /\ ev' = NoEv
          /\ UNCHANGED <<lastPostTime, payload, lastPostCall>>
  /\ UNCHANGED <<packetsSent, attempt, linkVars, sigVars, dataVars, directiveVars,
                 scanVars, connVars, loopVars, envVars>>

\* sendDataToProxy from doc["hr"] = pendingHR up to http.POST(jsonPayload)
sendDataToProxy_hr ==
  /\ pc = "doc"
  /\ pc' = "posting"
  /\ payload' = [telemetryDocument EXCEPT !.spo2 = payload.spo2]
  /\ ev' = Ev("post_begin")
  /\ UNCHANGED <<packetsSent, lastPostTime, attempt, lastPostCall, linkVars, sigVars, dataVars,
                 directiveVars, scanVars, connVars, loopVars, envVars>>

NextSample ==
  \/ Tick
  \/ LinkLoss
  \/ \E pData \in Frames : notifyCallback_hr(pData)
  \/ notifyCallback_spo2
  \/ notifyCallback_count
  \/ onDisconnect
  \/ \E matches \in BOOLEAN, rssi \in AdvRssis : onResult(matches, rssi)
  \/ performScan_end
  \/ loop_check
  \/ loop_rssi
  \/ loop_timeout
  \/ loop_scan
  \/ loop_connect
  \/ connectToDevice_finish
  \/ loop_status
  \/ loop_post_spo2
  \/ sendDataToProxy_hr
  \/ sendDataToProxy_finish
  \/ loop_end

SpecSample == Streaming /\ [][NextSample]_vars

(***************************************************************************)
(* Specification of the HTTPS publisher of version 2.2: one call of        *)
(* sendDataToServerHTTPS(spo2, hr), made by loop() with a sample it took   *)
(* from the slot, under every sequence of results of https.begin and       *)
(* https.POST.                                                             *)
(***************************************************************************)
\* notifyCallback stores a sample for this frame
accepted(pData) ==
  /\ ~badLength(Len(pData))
  /\ ~outOfRange(accumulate(hr_samples(pData), 30, 220, 1),
                 accumulate(spo2_samples(pData), 60, 100, 1))

\* the sample notifyCallback decodes from an accepted frame
sampleOf(pData) ==
  LET hr == accumulate(hr_samples(pData), 30, 220, 1)
      spo2 == accumulate(spo2_samples(pData), 60, 100, 1)
  IN  [hr |-> CDiv(hr.sum, hr.count), spo2 |-> CDiv(spo2.sum, spo2.count)]

\* the single loop of the v2.2 callback: both channels of sample k, then the
\* next sample
RECURSIVE accumulateBoth(_, _, _)
accumulateBoth(hrs, sps, k) ==
  IF k > Len(hrs)
  THEN [hr_sum |-> 0, hr_count |-> 0, spo2_sum |-> 0, spo2_count |-> 0]
  ELSE LET rest == accumulateBoth(hrs, sps, k + 1)
           h == hrs[k]
           sp == sps[k]
           hrIn == h >= 30 /\ h <= 220
           spIn == sp >= 60 /\ sp <= 100
       IN  [hr_sum |-> IF hrIn THEN rest.hr_sum + h ELSE rest.hr_sum,
            hr_count |-> IF hrIn THEN rest.hr_count + 1 ELSE rest.hr_count,
            spo2_sum |-> IF spIn THEN rest.spo2_sum + sp ELSE rest.spo2_sum,
            spo2_count |-> IF spIn THEN rest.spo2_count + 1 ELSE rest.spo2_count]

\* notifyCallback of v2.2: whether it stores, and the values it stores in
\* pendingSpo2 and pendingHR
notifyCallback_https(pData) ==
  IF Len(pData) # 20
  THEN [stored |-> FALSE, spo2 |-> 0, hr |-> 0]
  ELSE LET a == accumulateBoth(hr_samples(pData), spo2_samples(pData), 1)
       IN  IF a.hr_count = 0 \/ a.spo2_count = 0
           THEN [stored |-> FALSE, spo2 |-> 0, hr |-> 0]
           ELSE [stored |-> TRUE,
                 spo2 |-> CDiv(a.spo2_sum, a.spo2_count),
                 hr |-> CDiv(a.hr_sum, a.hr_count)]

\* the samples loop() can take from the slot
HttpsSamples == {sampleOf(f) : f \in {g \in DecoderFrames : accepted(g)}}

\* loop() has cleared the slot and calls sendDataToServerHTTPS(spo2, hr)
HttpsInit ==
  /\ pc = "https_call"
  /\ time = 0
  /\ linkUp = TRUE
  /\ discPending = FALSE
  /\ liveClients = 1
  /\ pClient = CLIENT
  /\ pRemoteChar = CHAR_NOTIFY
  /\ pWriteChar = CHAR_WRITE
  /\ deviceConnected = TRUE
  /\ isConnecting = FALSE
  /\ shouldConnect = TRUE
  /\ isActiveBridge = FALSE
  /\ currentRSSI = 0
  /\ avgRSSI = 0
  /\ currentDistance = 0
  /\ deviceMAC = "00:a0:50:36:ff:de"
  /\ pendingSpo2 = -1
  /\ pendingHR = -1
  /\ storing = NotStoring
  /\ dataQueue = <<>>
  /\ packetsSent = 0
  /\ blePacketsReceived = 0
  /\ connectionAttempts = 0
  /\ reconnections = 0
  /\ consecutiveFailures = 0
  /\ connectionStartTime = 0
  /\ lastDataTime = 0
  /\ lastRSSIUpdate = 0
  /\ lastScanTime = 0
  /\ lastPostTime = 0
  /\ lastStatusCheck = 0
  /\ rssiHistory = [i \in 1..RSSI_HISTORY_SIZE |-> 0]
  /\ rssiHistoryIndex = 0
  /\ rssiHistoryCount = 0
  /\ pushed = <<>>
  /\ foundDevice = NoDevice
  /\ now = 0
  /\ startTime = 0
  /\ lastStats = 0
  /\ \E s \in HttpsSamples :
       payload = [NoPayload EXCEPT !.valid = TRUE, !.spo2 = s.spo2, !.hr = s.hr]
  /\ attempt = 0
  /\ lastPostCall = NoCall
  /\ releaseSeen = FALSE
  /\ iterations = 0
  /\ ev = NoEv

\* while (attempt <= HTTP_MAX_RETRIES + 1): one attempt too many
attemptsRemainOneMore(n) == n <= HTTP_MAX_RETRIES + 1

\* while (attempt <= HTTP_MAX_RETRIES)
attemptsRemain(n) == n <= HTTP_MAX_RETRIES

\* sendDataToServerHTTPS up to the while loop
sendDataToServerHTTPS_begin(wifi) ==
  /\ pc = "https_call"
  /\ IF ~wifi
     THEN /\ pc' = "https_returned"
          /\ ev' = Ev("https_no_wifi")
     ELSE /\ pc' = "https_loop"
          /\ ev' = NoEv
  /\ attempt' = 0
  /\ UNCHANGED <<packetsSent, lastPostTime, payload, lastPostCall, linkVars, sigVars, dataVars,
                 directiveVars, scanVars, connVars, loopVars, envVars>>

\* one iteration of the while loop: https.begin, https.POST, the test of code
sendDataToServerHTTPS_attempt(beginOk, code) ==
  /\ pc = "https_loop"
  /\ attemptsRemain(attempt)
  /\ attempt' = attempt + 1
  /\ IF ~beginOk
     THEN /\ pc' = "https_loop"
          /\ ev' = Ev("https_begin_failed")
     ELSE IF code > 0 /\ code >= 200 /\ code < 300
     THEN /\ pc' = "https_returned"
          /\ ev' = [Ev("https_ok") EXCEPT !.code = code]
     ELSE /\ pc' = "https_loop"
          /\ ev' = [Ev("https_retry") EXCEPT !.code = code]
  /\ UNCHANGED <<packetsSent, lastPostTime, payload, lastPostCall, linkVars, sigVars, dataVars,
                 directiveVars, scanVars, connVars, loopVars, envVars>>

\* the while loop ends: return false
sendDataToServerHTTPS_end ==
  /\ pc = "https_loop"
  /\ ~attemptsRemain(attempt)
  /\ pc' = "https_returned"
  /\ ev' = Ev("https_failed")
  /\ UNCHANGED <<postVars, linkVars, sigVars, dataVars, directiveVars, scanVars,
                 connVars, loopVars, envVars>>

NextHttps ==
  \/ \E wifi \in BOOLEAN : sendDataToServerHTTPS_begin(wifi)
  \/ \E beginOk \in BOOLEAN, code \in HttpCodes : sendDataToServerHTTPS_attempt(beginOk, code)
  \/ sendDataToServerHTTPS_end

\* the main task runs the call to its end: every blocking step has a timeout
SpecHttps == HttpsInit /\ [][NextHttps]_vars /\ WF_vars(NextHttps)

(***************************************************************************)
(* Specification of the retention of a sample: the streaming bridge holds  *)
(* the sample of ScenarioFrame, decoded at time 0, and the wearable sends  *)
(* no further frame; the clock is the fine clock of the timer runs.        *)
(***************************************************************************)
HoldingSample ==
  /\ pc = "end"
  /\ time = 0
  /\ linkUp = TRUE
  /\ discPending = FALSE
  /\ liveClients = 1
  /\ pClient = CLIENT
  /\ pRemoteChar = CHAR_NOTIFY
  /\ pWriteChar = CHAR_WRITE
  /\ deviceConnected = TRUE
  /\ isConnecting = FALSE
  /\ shouldConnect = TRUE
  /\ isActiveBridge = FALSE
  /\ currentRSSI = -92
  /\ avgRSSI = -92
  /\ currentDistance = calculateDistance(-92)
  /\ deviceMAC = "00:a0:50:36:ff:de"
  /\ pendingSpo2 = 97
  /\ pendingHR = 73
  /\ storing = NotStoring
  /\ dataQueue = <<>>
  /\ packetsSent = 0
  /\ blePacketsReceived = 1
  /\ connectionAttempts = 1
  /\ reconnections = 0
  /\ consecutiveFailures = 0
  /\ connectionStartTime = 0
  /\ lastDataTime = 0
  /\ lastRSSIUpdate = 0
  /\ lastScanTime = 0
  /\ lastPostTime = 0
  /\ lastStatusCheck = 0
  /\ rssiHistory = [i \in 1..RSSI_HISTORY_SIZE |-> IF i = 1 THEN -92 ELSE 0]
  /\ rssiHistoryIndex = 1
  /\ rssiHistoryCount = 1
  /\ pushed = <<-92>>
  /\ foundDevice = [valid |-> TRUE, rssi |-> -92, addr |-> "00:a0:50:36:ff:de"]
  /\ now = 0
  /\ startTime = 0
  /\ lastStats = 0
  /\ payload = NoPayload
  /\ attempt = 0
  /\ lastPostCall = NoCall
  /\ releaseSeen = FALSE
  /\ iterations = 0
  /\ ev = NoEv

NextRetention ==
  \/ TickFine
  \/ \E matches \in BOOLEAN, rssi \in AdvRssis : onResult(matches, rssi)
  \/ performScan_end
  \/ loop_check
  \/ loop_rssi
  \/ loop_timeout
  \/ loop_scan
  \/ loop_connect
  \/ connectToDevice_finish
  \/ loop_status
  \/ loop_post
  \/ sendDataToProxy_finish
  \/ loop_end

SpecRetention == HoldingSample /\ [][NextRetention]_vars

(***************************************************************************)
(* Specification of the queue variant (puente_ble_wifi.ino): notifyCallback *)
(* of the BLE task sends each decoded sample to a FreeRTOS queue of        *)
(* QUEUE_LENGTH items and httpTask receives and posts them.                *)
(***************************************************************************)
\* decodePacket with the means rounded to the nearest integer
decodePacketRounding(pData) ==
  IF Len(pData) # 20
  THEN [spo2 |-> 0, hr |-> 0]
  ELSE LET hr == accumulate(hr_samples(pData), 30, 220, 1)
           spo2 == accumulate(spo2_samples(pData), 60, 100, 1)
       IN  [spo2 |-> IF spo2.count # 0
                     THEN CDiv(2 * spo2.sum + spo2.count, 2 * spo2.count) ELSE 0,
            hr |-> IF hr.count # 0
                   THEN CDiv(2 * hr.sum + hr.count, 2 * hr.count) ELSE 0]

\* decodePacket: {0, 0} for a wrong length, a field left 0 without valid samples
decodePacket(pData) ==
  IF Len(pData) # 20
  THEN [spo2 |-> 0, hr |-> 0]
  ELSE LET hr == accumulate(hr_samples(pData), 30, 220, 1)
           spo2 == accumulate(spo2_samples(pData), 60, 100, 1)
       IN  [spo2 |-> IF spo2.count # 0 THEN CDiv(spo2.sum, spo2.count) ELSE 0,
            hr |-> IF hr.count # 0 THEN CDiv(hr.sum, hr.count) ELSE 0]

\* xQueueSend(queue, &item, 0): the item is copied to the back of the queue;
\* a full queue is left as it is and the call returns errQUEUE_FULL
xQueueSend(queue, item) ==
  IF Len(queue) < QUEUE_LENGTH THEN Append(queue, item) ELSE queue

\* setup(): xQueueCreate, then the two tasks are started
setup_tasks ==
  /\ pc = "setup"
  /\ pc' = "http_wait"
  /\ dataQueue' = <<>>
  /\ ev' = NoEv
  /\ UNCHANGED <<pendingSpo2, pendingHR, blePacketsReceived, lastDataTime, storing,
                 linkVars, sigVars, directiveVars, scanVars, connVars, postVars,
                 loopVars, envVars>>

\* bleTask: one pass of its loop while not connected; onConnect runs inside
\* pClient->connect()
bleTask(connects) ==
  /\ pc # "setup"
  /\ ~deviceConnected /\ ~isConnecting
  /\ deviceConnected' = connects
  /\ isConnecting' = FALSE
  /\ ev' = NoEv
  /\ UNCHANGED <<pc, linkUp, discPending, liveClients, pClient, pRemoteChar, pWriteChar,
                 reconnections, sigVars, dataVars, directiveVars, scanVars, connVars,
                 postVars, loopVars, envVars>>

\* notifyCallback of the queue variant
notifyCallback_queue(pData) ==
  /\ deviceConnected
  /\ LET data == decodePacket(pData)
     IN  IF data.spo2 # 0 /\ data.hr # 0
         THEN dataQueue' = xQueueSend(dataQueue, data)
         ELSE UNCHANGED dataQueue
  /\ ev' = [Ev("queue_notify") EXCEPT !.frame = pData]
  /\ UNCHANGED <<pendingSpo2, pendingHR, blePacketsReceived, lastDataTime, storing, pc,
                 linkVars, sigVars, directiveVars, scanVars, connVars, postVars,
                 loopVars, envVars>>

\* httpTask: xQueueReceive(dataQueue, &data, portMAX_DELAY) returns the oldest item
httpTask_receive ==
  /\ pc = "http_wait"
  /\ dataQueue # <<>>
  /\ pc' = "http_send"
  /\ payload' = [NoPayload EXCEPT !.valid = TRUE,
                                  !.spo2 = Head(dataQueue).spo2,
                                  !.hr = Head(dataQueue).hr]
  /\ dataQueue' = Tail(dataQueue)
  /\ ev' = Ev("queue_receive")
  /\ UNCHANGED <<pendingSpo2, pendingHR, blePacketsReceived, lastDataTime, storing,
                 packetsSent, lastPostTime, attempt, lastPostCall, linkVars, sigVars, directiveVars,
                 scanVars, connVars, loopVars, envVars>>

\* httpTask: sendDataHTTP(data) returns
httpTask_send(wifi, code) ==
  /\ pc = "http_send"
  /\ pc' = "http_wait"
  /\ payload' = NoPayload
  /\ ev' = IF wifi THEN [Ev("queue_posted") EXCEPT !.code = code] ELSE Ev("queue_no_wifi")
  /\ UNCHANGED <<packetsSent, lastPostTime, attempt, lastPostCall, linkVars, sigVars, dataVars,
                 directiveVars, scanVars, connVars, loopVars, envVars>>

NextQueue ==
  \/ setup_tasks
  \/ \E connects \in BOOLEAN : bleTask(connects)
  \/ \E pData \in Frames : notifyCallback_queue(pData)
  \/ httpTask_receive
  \/ \E wifi \in BOOLEAN, code \in HttpCodes : httpTask_send(wifi, code)

SpecQueue == Init /\ [][NextQueue]_vars

(***************************************************************************)
(* Properties.                                                             *)
(***************************************************************************)
HROffsets == {3, 8, 13, 18}
SpO2Offsets == {4, 9, 14, 19}

\* the offsets among offs whose byte lies in lo..hi
InRangeAt(frame, offs, lo, hi) == {o \in offs : frame[o + 1] \in lo..hi}

RECURSIVE ByteSum(_, _)
ByteSum(frame, offs) ==
  IF offs = {} THEN 0
  ELSE LET o == CHOOSE x \in offs : TRUE
       IN  frame[o + 1] + ByteSum(frame, offs \ {o})

\* m is the mean of the bytes at offs, truncated to an integer
IsTruncatedMean(m, frame, offs) ==
  /\ offs # {}
  /\ m * Cardinality(offs) <= ByteSum(frame, offs)
  /\ ByteSum(frame, offs) < (m + 1) * Cardinality(offs)

ValidHR(frame) == InRangeAt(frame, HROffsets, 30, 220)
ValidSpO2(frame) == InRangeAt(frame, SpO2Offsets, 60, 100)

\* C1: after a 20-byte notification in which each channel has an in-range
\* candidate, pendingHR is the truncated mean of the in-range bytes at offsets
\* 3, 8, 13, 18 and pendingSpo2 that of the in-range bytes at offsets 4, 9, 14,
\* 19; the frame with HR 72,75,74,0 and SpO2 98,97,98,200 gives 73 and 97.
C1_DecoderResult ==
  (ev.op = "notify" /\ Len(ev.frame) = 20
     /\ ValidHR(ev.frame) # {} /\ ValidSpO2(ev.frame) # {})
  => /\ IsTruncatedMean(pendingHR, ev.frame, ValidHR(ev.frame))
     /\ IsTruncatedMean(pendingSpo2, ev.frame, ValidSpO2(ev.frame))
     /\ (ev.frame = ScenarioFrame => pendingHR = 73 /\ pendingSpo2 = 97)

C1_Witness ==
  /\ ev.op = "notify"
  /\ ev.frame = ScenarioFrame
  /\ pendingHR = 73
  /\ pendingSpo2 = 97

\* a frame the decoder must reject
Rejected(frame) ==
  \/ Len(frame) # 20
  \/ ValidHR(frame) = {}
  \/ ValidSpO2(frame) = {}

\* C2: a notification whose length is not 20, or in which either channel has
\* no in-range candidate, leaves pendingHR, pendingSpo2, blePacketsReceived and
\* lastDataTime unchanged.
C2_DecoderRejection ==
  [][(ev'.op = "notify" /\ Rejected(ev'.frame))
       => UNCHANGED <<pendingHR, pendingSpo2, blePacketsReceived, lastDataTime>>]_vars

\* a frame with valid SpO2 and no valid heart rate was rejected while a sample
\* was pending and the clock had moved on since it was stored
C2_Witness ==
  /\ ev.op = "notify"
  /\ Len(ev.frame) = 20
  /\ ValidHR(ev.frame) = {} /\ ValidSpO2(ev.frame) # {}
  /\ pendingHR > 0 /\ pendingSpo2 > 0
  /\ blePacketsReceived = 1
  /\ lastDataTime < time

\* loop() runs its connection step
ConnectStep == pc = "connect" /\ pc' # "connect"

\* C3: connectToDevice called with a candidate whose RSSI is below
\* RSSI_MIN_CONNECT does not set isConnecting, does not increment
\* connectionAttempts and creates or connects no client; the bridge is never
\* connecting to such a candidate.
C3_NoWeakConnect ==
  [][/\ (ConnectStep /\ foundDevice.valid /\ foundDevice.rssi < RSSI_MIN_CONNECT)
        => /\ pc' # "connecting"
           /\ isConnecting' = isConnecting
           /\ connectionAttempts' = connectionAttempts
           /\ pClient' = pClient
           /\ liveClients' = liveClients
           /\ linkUp' = linkUp
     /\ pc' = "connecting" => foundDevice'.rssi >= RSSI_MIN_CONNECT]_vars

C3_Witness ==
  /\ ev.op = "weak_signal"
  /\ foundDevice.valid
  /\ foundDevice.rssi < RSSI_MIN_CONNECT
  /\ shouldConnect
  /\ connectionAttempts = 0
  /\ pClient = NULL

\* connectToDevice is called with a candidate while the directive refuses
RefusedByDirective ==
  ConnectStep /\ ~deviceConnected /\ ~isConnecting /\ foundDevice.valid /\ ~shouldConnect

C5_ReleaseWithinIteration ==
  (pc = "end" /\ releaseSeen) => ~deviceConnected

\* the link state left by a teardown
CleanLink(l) ==
  /\ l.pClient = NULL
  /\ l.pRemoteChar = NULL
  /\ l.pWriteChar = NULL
  /\ ~l.deviceConnected
  /\ ~l.isConnecting
  /\ ~l.linkUp

\* C6: in every reachable state, cleanupConnection / forceDisconnect invoked
\* twice in succession leaves the state that one invocation leaves (handles
\* null, flags false, same counters), and the second invocation deletes no
\* client.
C6_TeardownIdempotent ==
  \A cb1 \in BOOLEAN, cb2 \in BOOLEAN :
    LET once == cleanupConnection(Link, cb1)
        twice == cleanupConnection(once, cb2)
        forcedTwice == forceDisconnect(forceDisconnect(Link, cb1), cb2)
    IN  /\ twice = once
        /\ forcedTwice = once
        /\ CleanLink(once)
        /\ twice.liveClients = once.liveClients
        /\ once.liveClients >= 0

\* a teardown has just released a connected client
C6_Witness ==
  /\ ev.op \in {"teardown_timeout", "teardown_signal", "teardown_link_lost"}
  /\ CleanLink(Link)
  /\ liveClients = 0
  /\ reconnections > 0
  /\ connectionAttempts > 0

\* C7 as stated: the data-timeout teardown fires only when more than
\* DATA_TIMEOUT has passed since the last valid sample (or the connection).
C7_TimeoutOnlyWhenSilent ==
  ev.op = "teardown_timeout" => time - lastDataTime > DATA_TIMEOUT

\* C8 as stated: after an RSSI refresh the link is torn down exactly when the
\* smoothed RSSI is at or below RSSI_FORCE_DISCONNECT.
C8_Original ==
  /\ ev.op = "teardown_signal" => avgRSSI <= RSSI_FORCE_DISCONNECT
  /\ ev.op = "rssi_refresh" => avgRSSI > RSSI_FORCE_DISCONNECT

\* C8 amended: the signal-based teardown is decided on the RSSI reading just
\* obtained: after a valid refresh the link is torn down when that reading is
\* at or below RSSI_FORCE_DISCONNECT, and is left alone when it is above.
C8_TeardownOnRawRssi ==
  [][/\ ev'.op = "teardown_signal"
        => currentRSSI' <= RSSI_FORCE_DISCONNECT /\ CleanLink(Link')
     /\ ev'.op = "rssi_refresh"
        => currentRSSI' > RSSI_FORCE_DISCONNECT /\ UNCHANGED linkVars
     /\ (pc = "rssi" /\ pc' = "timeout" /\ deviceConnected /\ ~deviceConnected')
        => ev'.op = "teardown_signal"]_vars

\* the link was torn down on a weak reading while the smoothed RSSI was above
\* the threshold
C8_Witness ==
  /\ ev.op = "teardown_signal"
  /\ currentRSSI <= RSSI_FORCE_DISCONNECT
  /\ avgRSSI > RSSI_FORCE_DISCONNECT
  /\ ~deviceConnected

\* a step of loop() that leaves STREAMING for one of the four causes
TeardownStep ==
  \/ ev'.op \in {"teardown_link_lost", "teardown_timeout", "teardown_signal"}
  \/ ev'.op = "poll_ok" /\ deviceConnected /\ ~shouldConnect'
  \/ ev'.op = "post_ok" /\ deviceConnected /\ ev'.body.release_connection = "true"

\* C9: link loss seen by loop(), data timeout, RSSI force-disconnect and
\* directive-driven release all end in the same link state: client released,
\* both characteristic handles null, deviceConnected and isConnecting false.
C9_SameTeardown ==
  [][TeardownStep => CleanLink(Link') /\ liveClients' = 0]_vars

C9_Witness ==
  /\ ev.op = "teardown_link_lost"
  /\ CleanLink(Link)
  /\ liveClients = 0

\* C10: a status poll that fails (transport error, status other than 200,
\* body that is not JSON) or is skipped because Wi-Fi is down leaves
\* shouldConnect and isActiveBridge as they were and does not touch the link.
C10_FailOpen ==
  [][ev'.op \in {"poll_failed", "poll_no_wifi"}
       => UNCHANGED <<shouldConnect, isActiveBridge, linkVars>>]_vars

\* a poll failed while the node was connected under should_connect = false
C10_Witness ==
  /\ ev.op = "poll_failed"
  /\ ~shouldConnect
  /\ deviceConnected
  /\ pClient # NULL

\* C11: a successful status poll, and a telemetry response that parses, leave
\* shouldConnect equal to the response's should_connect (true if absent) and
\* isActiveBridge equal to its is_active_bridge (false if absent), whatever
\* their previous values were.
C11_DirectiveReplaced ==
  [][(ev'.op = "poll_ok" \/ (ev'.op = "post_ok" /\ ev'.body.json))
       => /\ shouldConnect' = (ev'.body.should_connect # "false")
          /\ isActiveBridge' = (ev'.body.is_active_bridge = "true")]_vars

\* a poll whose answer omits should_connect set shouldConnect to true in an
\* iteration whose connection step had been refused by shouldConnect = false
\* (a good candidate is held, the node is not connected, no attempt was made)
C11_Witness ==
  /\ pc = "post"
  /\ ev.op = "poll_ok"
  /\ ev.body.should_connect = "absent"
  /\ ev.body.is_active_bridge = "absent"
  /\ shouldConnect /\ ~isActiveBridge
  /\ foundDevice.valid /\ foundDevice.rssi >= RSSI_MIN_CONNECT
  /\ ~deviceConnected /\ ~isConnecting
  /\ connectionAttempts = 0

\* C12: a status request is sent only when at least STATUS_CHECK_INTERVAL has
\* passed since the previous one (lastStatusCheck is the time of the previous
\* request: every request stores it), whatever the previous answer was.
C12_PollRateLimited ==
  [][ev'.op \in {"poll_ok", "poll_failed"}
       => /\ time' - lastStatusCheck >= STATUS_CHECK_INTERVAL
          /\ lastStatusCheck' = time']_vars

\* a poll was skipped because the previous request was sent less than
\* STATUS_CHECK_INTERVAL before
C12_Witness ==
  /\ ev.op = "poll_not_due"
  /\ lastStatusCheck > 0
  /\ time - lastStatusCheck > 0
  /\ time - lastStatusCheck < STATUS_CHECK_INTERVAL

\* the readings held in the history window: the last min(n, 10) recorded
Window ==
  LET n == Len(pushed)
      m == IF n < RSSI_HISTORY_SIZE THEN n ELSE RSSI_HISTORY_SIZE
  IN  SubSeq(pushed, n - m + 1, n)

RECURSIVE SeqSum(_)
SeqSum(q) == IF q = <<>> THEN 0 ELSE Head(q) + SeqSum(Tail(q))

\* C13: after every update of the history, avgRSSI is the mean, truncated
\* toward zero, of the last min(n, 10) readings recorded, and lies between the
\* smallest and the largest of them, also after the circular buffer has wrapped.
C13_SmoothedIsWindowMean ==
  pushed # <<>>
  => LET w == Window
         n == Len(w)
         sum == SeqSum(w)
     IN  /\ IF sum <= 0 THEN avgRSSI * n - sum \in 0..(n - 1)
            ELSE sum - avgRSSI * n \in 0..(n - 1)
         /\ \E i \in 1..n : w[i] <= avgRSSI
         /\ \E i \in 1..n : w[i] >= avgRSSI

\* the buffer has wrapped, the window holds different readings and the
\* smoothed value lies strictly between them
C13_Witness ==
  /\ ev.op = "rssi_recorded"
  /\ Len(pushed) = MaxPrefill + MaxPushes
  /\ Len(pushed) > RSSI_HISTORY_SIZE
  /\ \E i \in 1..Len(Window) : Window[i] < avgRSSI
  /\ \E i \in 1..Len(Window) : Window[i] > avgRSSI

\* position of a bucket in the order EXCELENTE > BUENA > ACEPTABLE > DEBIL >
\* CRITICA > PERDIDA
QualityRank(q) ==
  CASE q = "EXCELENTE" -> 5
    [] q = "BUENA" -> 4
    [] q = "ACEPTABLE" -> 3
    [] q = "DEBIL" -> 2
    [] q = "CRITICA" -> 1
    [] OTHER -> 0

\* of two telemetry documents, the one with the higher value never has the
\* worse bucket
NeverWorse(valueP, docP, valueQ, docQ) ==
  /\ valueP > valueQ
     => QualityRank(docP.signal_quality) >= QualityRank(docQ.signal_quality)
  /\ valueQ > valueP
     => QualityRank(docQ.signal_quality) >= QualityRank(docP.signal_quality)

RecentSum == pushed[Len(pushed)] + pushed[Len(pushed) - 1]
OlderSum == pushed[Len(pushed) - 2] + pushed[Len(pushed) - 3]

\* the trend the rule gives for readings that are all negative: the means are
\* truncated toward zero, so mean = -((-sum) \div 2)
TrendByRule ==
  LET recent == -((-RecentSum) \div 2)
      older == -((-OlderSum) \div 2)
  IN  IF recent - older > 3 THEN "improving"
      ELSE IF older - recent > 5 THEN "deteriorating"
      ELSE "stable"

\* C15: getSignalTrend is "stable" while fewer than 4 readings were recorded;
\* otherwise it compares the mean of the two readings recorded last with the
\* mean of the two recorded before them, wherever the write index is, and
\* answers "improving" / "deteriorating" only when the exact difference of the
\* means exceeds 3 / 5; -60,-61,-62,-63 is stable, -60,-60,-75,-76 deteriorating.
C15_TrendRule ==
  LET trend == getSignalTrend(History)
  IN  /\ Len(pushed) < 4 => trend = "stable"
      /\ Len(pushed) >= 4
         => /\ trend = TrendByRule
            /\ trend = "improving" => RecentSum - OlderSum > 2 * 3
            /\ trend = "deteriorating" => OlderSum - RecentSum > 2 * 5
      /\ pushed = <<-60, -61, -62, -63>> => trend = "stable"
      /\ pushed = <<-60, -60, -75, -76>> => trend = "deteriorating"

\* the four readings compared lie on both sides of the wrap of the buffer and
\* the trend is deteriorating
C15_Witness ==
  /\ ev.op = "rssi_recorded"
  /\ Len(pushed) = RSSI_HISTORY_SIZE + 2
  /\ rssiHistoryIndex = 2
  /\ SubSeq(pushed, Len(pushed) - 3, Len(pushed)) = <<-60, -60, -75, -76>>
  /\ getSignalTrend(History) = "deteriorating"

\* the history with the two recent readings and the two before them exchanged:
\* the same change of the window mean in the other direction
Mirrored(s) ==
  LET at(back) == ((s.rssiHistoryIndex - back + RSSI_HISTORY_SIZE) % RSSI_HISTORY_SIZE) + 1
  IN  [s EXCEPT !.rssiHistory =
         [i \in 1..RSSI_HISTORY_SIZE |->
            IF i = at(1) THEN s.rssiHistory[at(3)]
            ELSE IF i = at(2) THEN s.rssiHistory[at(4)]
            ELSE IF i = at(3) THEN s.rssiHistory[at(1)]
            ELSE IF i = at(4) THEN s.rssiHistory[at(2)]
            ELSE s.rssiHistory[i]]]

\* C16 as stated: deterioration is flagged at least as readily as improvement:
\* whenever a rise of the window mean is reported as improving, the fall of
\* the same magnitude is reported as deteriorating.
C16_LossFlaggedMoreReadily ==
  getSignalTrend(History) = "improving"
  => getSignalTrend(Mirrored(History)) = "deteriorating"

\* the connection steps that can fail once the attempt has started
FailedSteps == {"connect_failed", "no_service", "no_char", "no_notify"}

\* C17: a connection attempt that fails at connect(), at the service, at the
\* notification characteristic or at canNotify() ends with the client
\* released, pClient, pRemoteChar and pWriteChar null, and deviceConnected and
\* isConnecting false; the node is not left marked connected.
C17_FailedAttemptReleasesLink ==
  [][ev'.op \in FailedSteps
       => /\ CleanLink(Link')
          /\ liveClients' = 0
          /\ pc' # "connecting"]_vars

\* the attempt failed after the link was up (onConnect had marked the node
\* connected) and everything was released
C17_Witness ==
  /\ ev.op = "no_notify"
  /\ CleanLink(Link)
  /\ liveClients = 0
  /\ connectionAttempts > 0
  /\ consecutiveFailures = 1

\* C18 as stated: an attempt that ends in the connect timeout or in an explicit
\* connect failure leaves the node not connected, increments
\* consecutiveFailures by exactly one, and has waited for the connect step no
\* longer than CONNECTION_TIMEOUT.
C18_TimeoutBoundedAndCounted ==
  [][ev'.op \in {"connect_timeout", "connect_failed"}
       => /\ ~deviceConnected'
          /\ pc' # "connecting"
          /\ consecutiveFailures' = consecutiveFailures + 1
          /\ time' - startTime <= CONNECTION_TIMEOUT]_vars

\* C19 as stated: consecutiveFailures never exceeds a fixed bound, here any
\* bound below the number of attempts a run makes, also when every attempt
\* fails.
C19_FailureCounterBounded ==
  consecutiveFailures < MaxAttempts

\* loop() starts a scan
ScanStarts == pc = "scan" /\ pc' = "scanning"

\* C20: loop() starts a scan only when at least SCAN_INTERVAL has passed since
\* the previous scan finished, and only while the node is neither connected
\* nor connecting.
C20_ScanRateLimited ==
  [][ScanStarts
       => /\ time' - lastScanTime >= SCAN_INTERVAL
          /\ ~deviceConnected /\ ~isConnecting
          /\ ~deviceConnected' /\ ~isConnecting']_vars

\* loop() skipped the scan of a disconnected node because the previous scan
\* had finished less than SCAN_INTERVAL before
C20_Witness ==
  /\ pc = "connect"
  /\ ~deviceConnected /\ ~isConnecting
  /\ lastScanTime > 0
  /\ now - lastScanTime > 0
  /\ now - lastScanTime < SCAN_INTERVAL

\* connectToDevice returns from an attempt made with the held candidate
AttemptEnds == pc = "connecting" /\ pc' # "connecting"

\* C21 as stated: once connectToDevice has used the held candidate for an
\* attempt, successful or failed, the candidate is no longer held.
C21_CandidateConsumed ==
  [][AttemptEnds => ~foundDevice'.valid]_vars

\* the samples of the frames the wearable sends
FrameSamples ==
  {sampleOf(f) : f \in {g \in Frames : ~Rejected(g)}}

\* C22 as stated: the (hr, spo2) pair of every document handed to the
\* publisher is the sample decoded from one single frame.
C22_PairFromOneFrame ==
  payload.valid => [hr |-> payload.hr, spo2 |-> payload.spo2] \in FrameSamples

\* sendDataToProxy returns from http.POST and finishes
PublishEnds == pc = "posting" /\ pc' # "posting"

\* C23 as stated, for its last case: a sample decoded while a publish is in
\* flight (the slot was written after the document was built) is still
\* pending when that publish completes.
C23_InFlightSampleKept ==
  [][PublishEnds /\ blePacketsReceived > payload.ble_packets
       => pendingHR' = pendingHR /\ pendingSpo2' = pendingSpo2]_vars

\* C24 as stated: publish reports success, counts the packet and clears the
\* pending-sample slot if and only if the endpoint answered with a status in
\* 200..299; any other outcome is reported as failure and counts no packet.
C24_SuccessIff2xx ==
  [][PublishEnds
       => IF ev'.code \in 200..299
          THEN /\ ev'.op = "post_ok"
               /\ packetsSent' = packetsSent + 1
               /\ pendingSpo2' = -1 /\ pendingHR' = -1
          ELSE /\ ev'.op = "post_failed"
               /\ packetsSent' = packetsSent
               /\ pendingSpo2' = pendingSpo2 /\ pendingHR' = pendingHR]_vars

\* one iteration of the while loop of sendDataToServerHTTPS
HttpsAttempt == pc = "https_loop" /\ attempt' = attempt + 1

\* the attempt was answered with a 2xx status
Answered2xx == ev'.op # "https_begin_failed" /\ ev'.code \in 200..299

\* C25: one call of sendDataToServerHTTPS makes at most HTTP_MAX_RETRIES + 1
\* attempts and always returns; it returns success at the first attempt
\* answered 2xx; after an attempt that failed (https.begin failed, transport
\* error, status outside 2xx) it makes a further attempt while attempts
\* remain, and it returns failure once they are exhausted.
C25_RetryBounded ==
  /\ [](attempt <= HTTP_MAX_RETRIES + 1)
  /\ [][HttpsAttempt
          => IF Answered2xx
             THEN pc' = "https_returned" /\ ev'.op = "https_ok"
             ELSE pc' = "https_loop"]_vars
  /\ [][pc = "https_loop"
          => IF attempt < HTTP_MAX_RETRIES + 1
             THEN HttpsAttempt
             ELSE pc' = "https_returned" /\ ev'.op = "https_failed"
                  /\ attempt' = attempt]_vars
  /\ <>(pc = "https_returned")

\* a call returned failure after HTTP_MAX_RETRIES + 1 failed attempts
C25_Witness ==
  /\ pc = "https_returned"
  /\ ev.op = "https_failed"
  /\ attempt = HTTP_MAX_RETRIES + 1

\* loop() hands the pending sample to the publisher, which posts it
PublishBegins == pc = "post" /\ pc' = "posting"

\* C26 as stated, no new frame arriving: a sample whose publish failed (a
\* publish call was made after it was decoded and it is still pending) is
\* not sent again once it is older than one publish interval.
C26_StaleSampleNotResent ==
  [][PublishBegins
       => ~(lastPostTime > lastDataTime /\ now - lastDataTime > POST_INTERVAL)]_vars

\* notifyCallback of the queue variant decoded a sample from the frame
QueueArrival == ev'.op = "queue_notify" /\ accepted(ev'.frame)

\* C27 as stated: the queue never holds more than QUEUE_LENGTH samples; a
\* sample arriving at a full queue is admitted and the oldest queued sample
\* is dropped; httpTask takes the samples in arrival order, each once.
C27_BoundedDropOldest ==
  [][/\ Len(dataQueue') <= QUEUE_LENGTH
     /\ QueueArrival
          => dataQueue' = IF Len(dataQueue) < QUEUE_LENGTH
                          THEN Append(dataQueue, decodePacket(ev'.frame))
                          ELSE Append(Tail(dataQueue), decodePacket(ev'.frame))
     /\ ev'.op = "queue_receive"
          => /\ payload'.spo2 = Head(dataQueue).spo2
             /\ payload'.hr = Head(dataQueue).hr
             /\ dataQueue' = Tail(dataQueue)]_vars

\* updateRSSIHistory was called in this step
PushStep == pushed' # pushed

\* C28: rssiHistoryCount stays in 0..RSSI_HISTORY_SIZE and rssiHistoryIndex in
\* 0..RSSI_HISTORY_SIZE-1; a push stores the reading at the index, changes
\* no other entry and advances the index by one modulo RSSI_HISTORY_SIZE;
\* the buffer then holds the last min(n, RSSI_HISTORY_SIZE) readings, so a
\* push onto a full buffer has overwritten exactly the oldest one.
C28_HistoryInvariant ==
  /\ [](/\ rssiHistoryCount \in 0..RSSI_HISTORY_SIZE
        /\ rssiHistoryIndex \in 0..(RSSI_HISTORY_SIZE - 1))
  /\ [][PushStep
          => /\ rssiHistoryIndex' = (rssiHistoryIndex + 1) % RSSI_HISTORY_SIZE
             /\ rssiHistoryCount' = IF rssiHistoryCount < RSSI_HISTORY_SIZE
                                    THEN rssiHistoryCount + 1 ELSE RSSI_HISTORY_SIZE
             /\ rssiHistory'[rssiHistoryIndex + 1] = pushed'[Len(pushed')]
             /\ \A i \in 1..RSSI_HISTORY_SIZE :
                  i # rssiHistoryIndex + 1 => rssiHistory'[i] = rssiHistory[i]
             /\ rssiHistoryCount = RSSI_HISTORY_SIZE
                  => rssiHistory[rssiHistoryIndex + 1]
                       = pushed[Len(pushed) - RSSI_HISTORY_SIZE + 1]
             /\ \A k \in 1..rssiHistoryCount' :
                  rssiHistory'[((rssiHistoryIndex' - k + RSSI_HISTORY_SIZE)
                                  % RSSI_HISTORY_SIZE) + 1]
                    = pushed'[Len(pushed') - k + 1]]_vars

\* a push onto the full buffer replaced the oldest reading by a different one
\* after the index had wrapped
C28_Witness ==
  /\ ev.op = "rssi_recorded"
  /\ rssiHistoryCount = RSSI_HISTORY_SIZE
  /\ Len(pushed) > RSSI_HISTORY_SIZE + 1
  /\ rssiHistoryIndex = Len(pushed) % RSSI_HISTORY_SIZE
  /\ pushed[Len(pushed)] # pushed[Len(pushed) - RSSI_HISTORY_SIZE]

\* the signal values the estimator keeps
SignalState ==
  <<currentRSSI, avgRSSI, currentDistance, rssiHistory, rssiHistoryIndex,
    rssiHistoryCount>>

\* loop() made its periodic RSSI refresh in this step
PeriodicRefresh ==
  pc = "rssi" /\ ev'.op \in {"rssi_refresh", "rssi_invalid", "teardown_signal"}

Recoverable ==
  ev.op \in {"teardown_link_lost", "teardown_signal", "teardown_timeout",
             "connect_failed", "connect_timeout", "no_service", "no_char", "no_notify",
             "post_failed", "post_not_sent", "poll_failed", "poll_no_wifi"}

\* a disconnected node at the top of loop() whose scan interval has expired,
\* in a run that goes on
Idle ==
  /\ pc = "loop" /\ iterations < MaxLoops
  /\ ~deviceConnected /\ ~isConnecting
  /\ time - lastScanTime > SCAN_INTERVAL

\* every scan finds a matching device with RSSI at or above the minimum
AlwaysFound ==
  ev.op = "scan_end" => foundDevice.valid /\ foundDevice.rssi >= RSSI_MIN_CONNECT

\* no step of a connection attempt fails
StepsSucceed ==
  ev.op \notin {"connect_failed", "connect_timeout", "no_service", "no_char", "no_notify"}

\* C30: after a recoverable condition the iteration of loop() completes (the
\* node is back at the top of loop()); a disconnected node whose scan
\* interval has expired starts a new scan; and if every scan finds a matching
\* device with RSSI at or above the minimum, the directive allows connecting
\* and the connection steps succeed, such a node reaches STREAMING.
C30_KeepsRunning ==
  /\ Recoverable ~> (pc = "loop")
  /\ Idle ~> (pc \in {"scanning", "scan_stopped"})
  /\ ([]AlwaysFound /\ []shouldConnect /\ []StepsSucceed)
       => (Idle ~> (deviceConnected /\ pRemoteChar # NULL))

\* after a failed connection attempt the node is idle again with the scan
\* interval expired
C30_Witness ==
  /\ Idle
  /\ consecutiveFailures > 0
  /\ connectionAttempts > 0

\* a step of the notification callback
CallbackStep == ev'.op = "notify"

\* a network request leaves the node: the telemetry POST starts, or an
\* arbitration poll or a POST has been answered or has failed
RequestStep ==
  \/ payload'.valid /\ ~payload.valid
  \/ ev'.op \in {"post_ok", "post_failed", "poll_ok", "poll_failed"}
  \/ packetsSent' # packetsSent
  \/ lastPostTime' # lastPostTime

\* C31: the notification callback only decodes and stores; no step of the
\* callback issues a network request, and every telemetry request is issued
\* by a step of loop() (the publish step of the iteration).
C31_NoRequestFromCallback ==
  [][/\ CallbackStep => ~RequestStep /\ pc' = pc /\ UNCHANGED directiveVars
     /\ payload'.valid /\ ~payload.valid => pc = "post" /\ pc' = "posting"]_vars

\* the callback has stored a sample while a request of loop() is in flight
C31_Witness ==
  /\ ev.op = "notify"
  /\ ev.frame = ScenarioFrame
  /\ pendingHR = 73
  /\ pc = "posting"
  /\ payload.valid

\* rssi >= 0 || rssi < -120
implausible(rssi) == rssi >= 0 \/ rssi < -120

\* C32: the estimate (in millimetres) is the sentinel 99.9 m exactly when
\* the reading is implausible (>= 0 or < -120); every other reading gives a
\* value within [0.1 m, 99.9 m], and of two plausible readings the stronger
\* one never gives the larger estimate.
C32_DistanceSentinelAndRange ==
  /\ [](ev.op = "distance" =>
          /\ (currentDistance = 99900) <=> implausible(currentRSSI)
          /\ currentDistance >= 100 /\ currentDistance <= 99900)
  /\ [][(/\ ev.op = "distance" /\ ev'.op = "distance"
         /\ ~implausible(currentRSSI) /\ ~implausible(currentRSSI')
         /\ currentRSSI' > currentRSSI)
        => currentDistance' <= currentDistance]_vars

\* the weakest plausible reading has been estimated: below the sentinel and
\* above the lower clamp
C32_Witness ==
  /\ ev.op = "distance"
  /\ currentRSSI = -120
  /\ currentDistance > 100
  /\ currentDistance < 99900

\* a connection attempt in which the write characteristic is missing or is
\* not writable has returned
CommandNotSent ==
  ev'.op \in {"connect_no_write_char", "connect_write_char_readonly",
              "no_write_char", "write_char_readonly"}

\* C33: the start-streaming command is best-effort: an attempt whose write
\* characteristic is missing or not writable still ends in STREAMING (link
\* up, notifications subscribed, no failure counted) without a command
\* written; the command is the single byte 0xF1, written only by the step
\* that completes a connection, with the subscription registered.
C33_CommandBestEffort ==
  [][/\ CommandNotSent =>
          /\ pc = "connecting"
          /\ deviceConnected' /\ linkUp' /\ pClient' # NULL
          /\ pRemoteChar' = CHAR_NOTIFY
          /\ consecutiveFailures' = 0
          /\ ev'.cmd = <<>>
     /\ ev'.cmd # <<>> =>
          /\ ev'.cmd = <<START_STREAMING>>
          /\ pc = "connecting"
          /\ ev'.op = "connect_complete"
          /\ deviceConnected' /\ pRemoteChar' = CHAR_NOTIFY /\ pWriteChar' = CHAR_WRITE]_vars

\* a connection completed without a write characteristic
C33_Witness ==
  /\ ev.op = "connect_no_write_char"
  /\ deviceConnected
  /\ pRemoteChar = CHAR_NOTIFY
  /\ pWriteChar = NULL

\* a scan in which a matching device has been found and the scan has not
\* yet returned
ScanHoldsCandidate ==
  /\ pc \in {"setup_scanning", "setup_scan_stopped", "scanning", "scan_stopped"}
  /\ foundDevice.valid

\* C34: first match wins: a match is stored only in a scan that holds no
\* candidate yet, and from the match to the end of the scan the candidate is
\* not replaced, so the candidate held when the scan ends is the first match.
C34_FirstMatchWins ==
  [][/\ ev'.op = "scan_match" => ~foundDevice.valid /\ foundDevice'.valid
     /\ ScanHoldsCandidate => foundDevice' = foundDevice]_vars

\* a scan has ended holding the device it matched
C34_Witness ==
  /\ ev.op = "scan_end"
  /\ foundDevice.valid
  /\ pc = "connect"

\* loop() calls sendDataToProxy
PublishCall == pc = "post" /\ (pc' \in {"posting", "doc"} \/ ev'.op = "post_not_sent")

\* http.POST is called: the request leaves
RequestSent == pc # "posting" /\ pc' = "posting"

\* C35 as stated: the publisher is called only with both fields of the slot
\* set, no request carries an empty or half-empty sample, and two
\* consecutive calls of the publisher are never less than POST_INTERVAL
\* apart in time.
C35_PublishRateLimited ==
  [][/\ PublishCall =>
          /\ pendingSpo2 > 0 /\ pendingHR > 0
          /\ lastPostCall # NoCall => time - lastPostCall.at >= POST_INTERVAL
     /\ RequestSent => payload'.spo2 > 0 /\ payload'.hr > 0]_vars

\* C35 on the timestamps that loop() keeps: the same statement with the
\* distance of two consecutive calls measured between the starts (now) of
\* their loop iterations instead of between the calls.
C35_PublishByIterationStamp ==
  [][/\ PublishCall =>
          /\ pendingSpo2 > 0 /\ pendingHR > 0
          /\ lastPostCall # NoCall => now - lastPostCall.stamp >= POST_INTERVAL
     /\ RequestSent => payload'.spo2 > 0 /\ payload'.hr > 0]_vars

\* connectToDevice goes past its early returns and creates a client
AttemptStarts == ev'.op = "connect_begin"

\* C36: one link at a time: a connection attempt starts only when the node
\* is neither connected nor connecting, the client it creates is the only
\* one (an earlier client has been released first), and in every state at
\* most one client object exists, which is the one pClient points to.
C36_OneLinkAtATime ==
  /\ [](liveClients \in {0, 1} /\ (liveClients = 1 <=> pClient # NULL))
  /\ [][AttemptStarts =>
          /\ ~deviceConnected /\ ~isConnecting
          /\ liveClients' = 1 /\ pClient' # NULL]_vars

\* a second attempt has started after the first link was lost
C36_Witness ==
  /\ ev.op = "connect_begin"
  /\ connectionAttempts = 2
  /\ reconnections = 1
  /\ liveClients = 1

\* C37 as stated: at the end of an iteration of loop() the node is not both
\* connected and under a directive with should_connect = false.
C37_NoLinkUnderRefusal ==
  pc = "end" => ~(deviceConnected /\ ~shouldConnect)

\* the queue variant sends the decoded sample: data.spo2 && data.hr
queued(pData) == decodePacket(pData).spo2 # 0 /\ decodePacket(pData).hr # 0

\* C38: the decoders agree on every frame: the queue variant (decodePacket
\* and the non-zero test of its callback), the v5.1 callback and the v2.2
\* callback accept the same frames, and on an accepted frame they produce
\* the same (hr, spo2), which is the pair the v5.1 callback has stored.
C38_DecodersAgree ==
  ev.op = "notify" =>
    LET f == ev.frame
        q == decodePacket(f)
        h == notifyCallback_https(f)
    IN  /\ queued(f) <=> accepted(f)
        /\ h.stored <=> accepted(f)
        /\ accepted(f) =>
             /\ [hr |-> q.hr, spo2 |-> q.spo2] = sampleOf(f)
             /\ [hr |-> h.hr, spo2 |-> h.spo2] = sampleOf(f)
             /\ pendingHR = q.hr /\ pendingSpo2 = q.spo2

\* a frame whose means are not whole numbers has been decoded, and a frame
\* with one channel out of range is refused by all three
C38_Witness ==
  /\ ev.op = "notify"
  /\ ev.frame = ScenarioFrame
  /\ queued(ev.frame)
  /\ notifyCallback_https(ev.frame).stored
  /\ pendingHR = 73 /\ pendingSpo2 = 97
  /\ ~queued(MkFrame(<<30, 0, 0, 0>>, <<0, 59, 101, 255>>))

\* C39 as stated, its invariant: in every state the number of packets
\* published successfully is at most the number of valid frames counted as
\* received.
C39_CountersConsistent == packetsSent <= blePacketsReceived

\* the second part of C39: packetsSent changes only by one, in the step that
\* ends a publish with success.
C39_SentByOne ==
  [][packetsSent' # packetsSent
       => /\ packetsSent' = packetsSent + 1
          /\ PublishEnds
          /\ ev'.op = "post_ok"]_vars

=============================================================================
